---- MODULE Spec2Model ----
(***************************************************************************)
(* A model of the TFT Set 16 match simulator: the shared ChampionPool, the *)
(* Player economy actions, the GameRound orchestration and the             *)
(* event-driven TFTEventEngine with its heapq-based EventEngine base.      *)
(*                                                                         *)
(* The specifications share the variables:                                 *)
(*   SpecPool    direct acquire/release calls on a ChampionPool            *)
(*   SpecPlayer  Player / GameRound methods called in any order            *)
(*   SpecShop    refresh_shop / buy_champion_from_shop by all players      *)
(*   SpecEngine  schedule_event / process_next_event on an EventEngine     *)
(*   SpecRun     schedule_event / run_until_decision_point on the same     *)
(*   Spec        a whole match driven through run_until_decision_point     *)
(*               and apply_action                                          *)
(*   SpecResume  the same match with three players and a caller that goes  *)
(*               on after START_COMBAT has raised                          *)
(*   SpecBoard   place / remove / move / swap on one Board whose units are *)
(*               objects (a heap of Champions, cells holding references)   *)
(*   SpecUnits   a Player's grant, buy, sell and move with units as        *)
(*               objects                                                   *)
(*   SpecCombat  run_combat_phase / advance_round on a GameRound of three  *)
(*               players with fixed board line-ups                         *)
(*   SpecAugment the augment hooks called on one player who holds units    *)
(*               that carry combat stats                                   *)
(*   SpecEligible get_eligible_augments called with rounds and catalogs    *)
(*   SpecConsolidate one player with gold for many purchases of one        *)
(*               champion: refresh, buy, sell, move                        *)
(*   SpecLevel   the XP gains of one player: buy_xp and the Epoch hooks    *)
(*   SpecStage   a match of three players through the first carousel round *)
(*               into stage 2, some players holding Epoch                  *)
(*                                                                         *)
(* Pure statistics fields that no code path reads back (gold_spent,        *)
(* total_damage_taken, GameRound.combat_results) are not carried.          *)
(***************************************************************************)
EXTENDS Integers, Sequences, FiniteSets, TLC

VARIABLES
    config,            \* TFTConfig fields that the specifications vary
    pool_size_config,  \* ChampionPool.pool_size_config : cost -> copies
    pool,              \* ChampionPool.pool : champion id -> available copies
    tier_totals,       \* ChampionPool.tier_totals : cost -> available copies
    players,           \* list of Player objects, indexed by player_id (SpecBoard: the Board)
    game_round,        \* GameRound fields (current_round, current_stage, recent_opponents)
    event_queue,       \* EventEngine.event_queue, the heapq array
    current_time,      \* EventEngine.current_time, in tenths of a time unit
    engine,            \* TFTEventEngine.current_round / current_stage / game_over_flag
    pc,                \* where the caller of the engine stands
    ret,               \* what the engine call made last returned (SpecAugment, SpecEligible:
                       \* what the augment call returned)
    last_call,         \* the method call made by the last step, with its outcome
    history,           \* log of the engine calls: events scheduled, events processed, actions applied
                       \* (SpecResume keeps the last entry only)
    counters           \* per-id successful acquires/releases (SpecPool), events scheduled (engine),
                       \* combat phases run and players eliminated (SpecCombat), hook calls (SpecAugment)

vars == <<config, pool_size_config, pool, tier_totals, players, game_round,
          event_queue, current_time, engine, pc, ret, last_call, history, counters>>

---------------------------------------------------------------------------
(* Bounds of the model *)

NumPlayers == 2
BenchSize == 2
ShopSize == 1
MaxLevel == 2
MaxGold == 5
PoolCopiesCost1 == 3
PoolCopiesCost2 == 2
MaxPlanning == 1
MaxPoolCalls == 5
MaxEvents == 3
MaxTime == 1

StartHealth == 3

MaxRounds == 5

MaxUnits == 3

MaxLineup == 2
CombatHealth == 6
FirstPvpRound == 6
LastCombatRound == 9
MaxCombats == 4
MaxAugments == 2
ConsolidateGold == 21
LevelCap == 4
LevelGold == 12
MaxXpGains == 4
StageRounds == 10
StageHealth == 3
MaxHookCalls == 1
MaxCatalog == 3

(* Program constants *)

Rows == 4
Cols == 7
xp_cost == 4
xp_per_buy == 4
shop_refresh_cost == 2
interest_cap == 5
starting_gold == 0
starting_level == 1
MaxStars == 4
DefaultGoldPerRound == 5

---------------------------------------------------------------------------
(* The catalog (external collaborator): champion templates by id *)

ChampionIds == {"Lulu", "Rumble", "Vi"}

Cost(champion_id) == IF champion_id = "Vi" THEN 2 ELSE 1

Costs == {Cost(c) : c \in ChampionIds}

None == "None"

NoPos == << >>

NoUnit == [id |-> None, stars |-> 0, position |-> NoPos]

create_champion(champion_id) == [id |-> champion_id, stars |-> 1, position |-> NoPos]

IsUnit(u) == u.id # None

Pow3(n) == IF n <= 0 THEN 1 ELSE IF n = 1 THEN 3 ELSE IF n = 2 THEN 9 ELSE 27

xp_to_level(lv) ==
    CASE lv = 1 -> 0 [] lv = 2 -> 2 [] lv = 3 -> 6 [] lv = 4 -> 10 [] lv = 5 -> 20
      [] lv = 6 -> 36 [] lv = 7 -> 56 [] lv = 8 -> 80 [] lv = 9 -> 108 [] lv = 10 -> 136
      [] OTHER -> 99999

max_units_by_level(lv) == lv

(* Cost tiers with a positive weight in shop_odds at a level *)
TierSupport(lv) ==
    CASE lv \in {1, 2} -> {1}
      [] lv = 3 -> {1, 2}
      [] lv = 4 -> {1, 2, 3}
      [] lv \in {5, 6} -> {1, 2, 3, 4}
      [] lv \in 7..11 -> {1, 2, 3, 4, 5}
      [] OTHER -> {1}

---------------------------------------------------------------------------
(* ChampionPool.  P is the record [pool, tier_totals, cfg].                *)

PoolRec(pl, tt, cfg) == [pool |-> pl, tier_totals |-> tt, cfg |-> cfg]

max_copies(cfg, cost) == IF cost \in DOMAIN cfg THEN cfg[cost] ELSE 10

_initialize_pool(cfg) ==
    PoolRec([c \in ChampionIds |-> max_copies(cfg, Cost(c))],
            [k \in Costs |-> Cardinality({c \in ChampionIds : Cost(c) = k}) * max_copies(cfg, k)],
            cfg)

get_available(P, champion_id) ==
    IF champion_id \in DOMAIN P.pool THEN P.pool[champion_id] ELSE 0

is_available(P, champion_id) == get_available(P, champion_id) > 0

acquire(P, champion_id) ==
    IF ~is_available(P, champion_id)
    THEN [ok |-> FALSE, P |-> P]
    ELSE [ok |-> TRUE,
          P |-> [P EXCEPT !.pool[champion_id] = @ - 1,
                          !.tier_totals[Cost(champion_id)] = @ - 1]]

(* release without the check against the configured maximum *)
release_unchecked(P, champion_id) ==
    IF champion_id \notin DOMAIN P.pool
    THEN [ok |-> FALSE, P |-> P]
    ELSE [ok |-> TRUE,
          P |-> [P EXCEPT !.pool[champion_id] = @ + 1,
                          !.tier_totals[Cost(champion_id)] = @ + 1]]

release(P, champion_id) ==
    IF champion_id \notin DOMAIN P.pool
    THEN [ok |-> FALSE, P |-> P]
    ELSE IF P.pool[champion_id] < max_copies(P.cfg, Cost(champion_id))
         THEN [ok |-> TRUE,
               P |-> [P EXCEPT !.pool[champion_id] = @ + 1,
                               !.tier_totals[Cost(champion_id)] = @ + 1]]
         ELSE [ok |-> FALSE, P |-> P]

RECURSIVE release_n(_, _, _)
release_n(P, champion_id, n) ==
    IF n = 0 THEN P ELSE release_n(release(P, champion_id).P, champion_id, n - 1)

AvailableOfCost(P, cost) == {c \in DOMAIN P.pool : P.pool[c] > 0 /\ Cost(c) = cost}

RECURSIVE StepDownCost(_, _)
StepDownCost(P, cost) ==
    IF AvailableOfCost(P, cost) = {} /\ cost > 1 THEN StepDownCost(P, cost - 1) ELSE cost

(* The values one shop slot can get from sample_shop *)
SlotChoices(P, level) ==
    UNION { LET av == AvailableOfCost(P, StepDownCost(P, cost))
            IN  IF av = {} THEN {None} ELSE av
            : cost \in TierSupport(level) }

(* The set of shops sample_shop can return *)
sample_shop(P, level) == [1..ShopSize -> SlotChoices(P, level)]

---------------------------------------------------------------------------
(* Board: the grid maps every cell to the unit it holds (or NoUnit) *)

Cells == (0..(Rows - 1)) \X (0..(Cols - 1))

(* dict iteration order of Board.grid: row-major *)
CellOrder == [i \in 1..(Rows * Cols) |-> <<(i - 1) \div Cols, (i - 1) % Cols>>]

EmptyBoard == [cell \in Cells |-> NoUnit]

is_valid_position(row, col) == 0 <= row /\ row < Rows /\ 0 <= col /\ col < Cols

is_empty(grid, row, col) ==
    IF ~is_valid_position(row, col) THEN FALSE ELSE ~IsUnit(grid[<<row, col>>])

get(grid, row, col) ==
    IF ~is_valid_position(row, col) THEN NoUnit ELSE grid[<<row, col>>]

place(grid, champion, row, col) ==
    IF ~is_valid_position(row, col) \/ ~is_empty(grid, row, col)
    THEN [ok |-> FALSE, grid |-> grid]
    ELSE LET cleared ==
                 IF champion.position # NoPos /\ champion.position \in Cells
                    /\ grid[champion.position] = champion
                 THEN [grid EXCEPT ![champion.position] = NoUnit]
                 ELSE grid
         IN  [ok |-> TRUE,
              grid |-> [cleared EXCEPT ![<<row, col>>] =
                            [champion EXCEPT !.position = <<row, col>>]]]

remove(grid, row, col) ==
    IF ~is_valid_position(row, col)
    THEN [champion |-> NoUnit, grid |-> grid]
    ELSE LET champion == grid[<<row, col>>]
         IN  IF IsUnit(champion)
             THEN [champion |-> [champion EXCEPT !.position = NoPos],
                   grid |-> [grid EXCEPT ![<<row, col>>] = NoUnit]]
             ELSE [champion |-> NoUnit, grid |-> grid]

OccupiedCells(grid) == SelectSeq(CellOrder, LAMBDA cell : IsUnit(grid[cell]))

get_all_champions(grid) ==
    LET occ == OccupiedCells(grid) IN [i \in 1..Len(occ) |-> grid[occ[i]]]

count_champions(grid) == Len(OccupiedCells(grid))

find_champion(grid, champion) ==
    LET hits == SelectSeq(CellOrder, LAMBDA cell : grid[cell] = champion)
    IN  IF hits = << >> THEN NoPos ELSE hits[1]

---------------------------------------------------------------------------
(* Player *)

NewPlayer(cfg) ==
    [gold |-> starting_gold, health |-> cfg.starting_health, level |-> starting_level,
     xp |-> 0, free_rerolls |-> 0,
     board |-> EmptyBoard,
     bench |-> [i \in 1..BenchSize |-> NoUnit],
     shop |-> [i \in 1..ShopSize |-> None],
     items |-> << >>, is_alive |-> TRUE, rounds_survived |-> 0,
     selected_augments |-> << >>]

(* Player._check_level_up under a configuration whose max_level is        *)
(* max_level                                                               *)
_check_level_up_under(player, max_level) ==
    LET next_level == player.level + 1
    IN  IF next_level > max_level THEN player
        ELSE IF player.xp >= xp_to_level(next_level)
             THEN [player EXCEPT !.level = next_level]
             ELSE player

(* The players of every specification but SpecLevel have max_level MaxLevel *)
_check_level_up(player) == _check_level_up_under(player, MaxLevel)

(* buy_xp crediting the experience before it checks the gold *)
buy_xp_credits_first(player) ==
    IF player.level >= MaxLevel THEN [ok |-> FALSE, player |-> player]
    ELSE IF player.gold < xp_cost
         THEN [ok |-> FALSE, player |-> [player EXCEPT !.xp = @ + xp_per_buy]]
         ELSE [ok |-> TRUE,
               player |-> _check_level_up([player EXCEPT !.gold = @ - xp_cost,
                                                         !.xp = @ + xp_per_buy])]

(* Player.buy_xp under a configuration whose max_level is max_level *)
buy_xp_under(player, max_level) ==
    IF player.gold < xp_cost THEN [ok |-> FALSE, player |-> player]
    ELSE IF player.level >= max_level THEN [ok |-> FALSE, player |-> player]
    ELSE [ok |-> TRUE,
          player |-> _check_level_up_under([player EXCEPT !.gold = @ - xp_cost,
                                                          !.xp = @ + xp_per_buy],
                                           max_level)]

buy_xp(player) == buy_xp_under(player, MaxLevel)

Min(a, b) == IF a <= b THEN a ELSE b

gain_interest(player) ==
    [player EXCEPT !.gold = @ + Min(@ \div 10, interest_cap)]

start_of_round_gold(player, cfg) ==
    gain_interest([player EXCEPT !.gold = @ + cfg.gold_per_round])

_generate_shop(player, new_shop) == [player EXCEPT !.shop = new_shop]

(* refresh_shop without the test gold < shop_refresh_cost *)
refresh_shop_without_gold_check(player, new_shop) ==
    IF player.free_rerolls > 0
    THEN [ok |-> TRUE,
          player |-> _generate_shop([player EXCEPT !.free_rerolls = @ - 1], new_shop)]
    ELSE [ok |-> TRUE,
          player |-> _generate_shop([player EXCEPT !.gold = @ - shop_refresh_cost],
                                    new_shop)]

(* new_shop is the shop that pool.sample_shop draws in this call *)
refresh_shop(player, new_shop) ==
    IF player.free_rerolls > 0
    THEN [ok |-> TRUE,
          player |-> _generate_shop([player EXCEPT !.free_rerolls = @ - 1], new_shop)]
    ELSE IF player.gold < shop_refresh_cost
         THEN [ok |-> FALSE, player |-> player]
         ELSE [ok |-> TRUE,
               player |-> _generate_shop([player EXCEPT !.gold = @ - shop_refresh_cost],
                                         new_shop)]

FreeBenchSlots(player) == {i \in 1..BenchSize : ~IsUnit(player.bench[i])}

SetMin(S) == CHOOSE x \in S : \A y \in S : x <= y

_add_to_bench_no_upgrade(player, champion) ==
    IF FreeBenchSlots(player) = {}
    THEN [ok |-> FALSE, player |-> player]
    ELSE [ok |-> TRUE,
          player |-> [player EXCEPT !.bench[SetMin(FreeBenchSlots(player))] = champion]]

_remove_champion_from_bench_or_board(player, champion) ==
    LET hits == {i \in 1..BenchSize : player.bench[i] = champion}
    IN  IF hits # {}
        THEN [player EXCEPT !.bench[SetMin(hits)] = NoUnit]
        ELSE LET pos == find_champion(player.board, champion)
             IN  IF pos # NoPos
                 THEN [player EXCEPT !.board = remove(@, pos[1], pos[2]).grid]
                 ELSE player

LuluRange == 4

BaseHp == 500

ShieldPercent == 30

(* data.stats.attack_range or 1 of the champion's data *)
stats_attack_range(champion_id) == IF champion_id = "Lulu" THEN LuluRange ELSE 1

(* _update_base_stats sets the live stats back to the star-scaled base     *)
(* values; of these the model keeps attack_range, and only on the units    *)
(* that carry combat stats (max_hp and current_hp follow from the stars).  *)
_update_base_stats(champion) ==
    IF "attack_range" \in DOMAIN champion
    THEN [champion EXCEPT !.attack_range = stats_attack_range(champion.id)]
    ELSE champion

upgrade_star(champion) ==
    IF champion.stars >= MaxStars THEN champion
    ELSE _update_base_stats([champion EXCEPT !.stars = @ + 1])

(* Where a unit is held: <<-1, col>> is bench slot col, <<row, col>> a board cell *)
BenchOrder == [i \in 1..BenchSize |-> <<-1, i - 1>>]

UnitAt(player, loc) ==
    IF loc[1] = -1 THEN player.bench[loc[2] + 1] ELSE player.board[loc]

SetUnitAt(player, loc, u) ==
    IF loc[1] = -1 THEN [player EXCEPT !.bench[loc[2] + 1] = u]
    ELSE [player EXCEPT !.board[loc] = u]

SameAs(u, new_champion) ==
    IsUnit(u) /\ u.id = new_champion.id /\ u.stars = new_champion.stars

(* same_champions of _check_for_upgrade: bench matches first, then board *)
same_champions(player, new_champion) ==
    SelectSeq(BenchOrder \o CellOrder,
              LAMBDA loc : SameAs(UnitAt(player, loc), new_champion))

_check_for_upgrade(player, new_champion) ==
    LET same == same_champions(player, new_champion)
    IN  IF Len(same) >= 2
        THEN LET other_copy == UnitAt(player, same[2])
                 upgraded == SetUnitAt(player, same[1],
                                       upgrade_star(UnitAt(player, same[1])))
             IN  [upgraded |-> TRUE,
                  player |-> _remove_champion_from_bench_or_board(upgraded, other_copy)]
        ELSE [upgraded |-> FALSE, player |-> player]

_add_to_bench(player, champion) ==
    LET chk == _check_for_upgrade(player, champion)
    IN  _add_to_bench_no_upgrade(chk.player, champion)

(* _sell_champion without the release of the copies to the pool *)
_sell_champion_without_release(player, P, champion) ==
    [player |-> [player EXCEPT !.gold = @ + Cost(champion.id)], P |-> P]

_sell_champion(player, P, champion) ==
    [player |-> [player EXCEPT !.gold = @ + Cost(champion.id)],
     P |-> release_n(P, champion.id, Pow3(champion.stars - 1))]

(* buy_champion_from_shop trusting the shop: the pool is not asked again   *)
buy_without_recheck(player, P, shop_index) ==
    LET fail == [ok |-> FALSE, player |-> player, P |-> P, autosold |-> FALSE]
    IN  IF ~(0 <= shop_index /\ shop_index < ShopSize) THEN fail
        ELSE LET champion_id == player.shop[shop_index + 1]
             IN  IF champion_id \notin ChampionIds THEN fail
                 ELSE IF player.gold < Cost(champion_id) THEN fail
                 ELSE LET acq == acquire(P, champion_id)
                          paid == [player EXCEPT !.gold = @ - Cost(champion_id)]
                          new_champion == create_champion(champion_id)
                          added == _add_to_bench(paid, new_champion)
                          sold == _sell_champion(added.player, acq.P, new_champion)
                          after == IF added.ok THEN added.player ELSE sold.player
                      IN  [ok |-> TRUE,
                           player |-> [after EXCEPT !.shop[shop_index + 1] = None],
                           P |-> IF added.ok THEN acq.P ELSE sold.P,
                           autosold |-> ~added.ok]

buy_champion_from_shop(player, P, shop_index) ==
    LET fail == [ok |-> FALSE, player |-> player, P |-> P, autosold |-> FALSE]
    IN  IF ~(0 <= shop_index /\ shop_index < ShopSize) THEN fail
        ELSE LET champion_id == player.shop[shop_index + 1]
             IN  IF champion_id = None THEN fail
                 ELSE IF champion_id \notin ChampionIds THEN fail
                 ELSE IF player.gold < Cost(champion_id) THEN fail
                 ELSE IF ~is_available(P, champion_id) THEN fail
                 ELSE LET acq == acquire(P, champion_id)
                          paid == [player EXCEPT !.gold = @ - Cost(champion_id)]
                          new_champion == create_champion(champion_id)
                          added == _add_to_bench(paid, new_champion)
                          sold == _sell_champion(added.player, acq.P, new_champion)
                          after == IF added.ok THEN added.player ELSE sold.player
                      IN  IF ~acq.ok THEN fail
                          ELSE [ok |-> TRUE,
                                player |-> [after EXCEPT !.shop[shop_index + 1] = None],
                                P |-> IF added.ok THEN acq.P ELSE sold.P,
                                autosold |-> ~added.ok]

(* move_champion without the check of the board size limit *)
move_champion_without_cap(player, from_pos, to_pos) ==
    LET from_row == from_pos[1]
        from_col == from_pos[2]
        to_row == to_pos[1]
        to_col == to_pos[2]
        fail == [ok |-> FALSE, player |-> player]
        src_ok == IF from_row = -1 THEN 0 <= from_col /\ from_col < BenchSize
                  ELSE TRUE
        champion == IF from_row = -1
                    THEN (IF src_ok THEN player.bench[from_col + 1] ELSE NoUnit)
                    ELSE get(player.board, from_row, from_col)
        removed == IF from_row = -1
                   THEN [player EXCEPT !.bench[from_col + 1] = NoUnit]
                   ELSE [player EXCEPT !.board = remove(@, from_row, from_col).grid]
        lifted == [champion EXCEPT !.position = NoPos]
    IN  IF ~src_ok \/ ~IsUnit(champion) THEN fail
        ELSE IF to_row = -1
        THEN IF ~(0 <= to_col /\ to_col < BenchSize) THEN fail
             ELSE IF IsUnit(player.bench[to_col + 1]) THEN fail
             ELSE [ok |-> TRUE, player |-> [removed EXCEPT !.bench[to_col + 1] = lifted]]
        ELSE IF FALSE
             THEN fail
             ELSE IF ~is_empty(player.board, to_row, to_col) THEN fail
             ELSE [ok |-> TRUE,
                   player |-> [removed EXCEPT
                       !.board = place(@, IF from_row = -1 THEN champion ELSE lifted,
                                       to_row, to_col).grid]]

move_champion(player, from_pos, to_pos) ==
    LET from_row == from_pos[1]
        from_col == from_pos[2]
        to_row == to_pos[1]
        to_col == to_pos[2]
        fail == [ok |-> FALSE, player |-> player]
        src_ok == IF from_row = -1 THEN 0 <= from_col /\ from_col < BenchSize
                  ELSE TRUE
        champion == IF from_row = -1
                    THEN (IF src_ok THEN player.bench[from_col + 1] ELSE NoUnit)
                    ELSE get(player.board, from_row, from_col)
        removed == IF from_row = -1
                   THEN [player EXCEPT !.bench[from_col + 1] = NoUnit]
                   ELSE [player EXCEPT !.board = remove(@, from_row, from_col).grid]
        lifted == [champion EXCEPT !.position = NoPos]
    IN  IF ~src_ok \/ ~IsUnit(champion) THEN fail
        ELSE IF to_row = -1
        THEN IF ~(0 <= to_col /\ to_col < BenchSize) THEN fail
             ELSE IF IsUnit(player.bench[to_col + 1]) THEN fail
             ELSE [ok |-> TRUE, player |-> [removed EXCEPT !.bench[to_col + 1] = lifted]]
        ELSE IF count_champions(player.board) >= max_units_by_level(player.level)
                /\ from_row = -1
             THEN fail
             ELSE IF ~is_empty(player.board, to_row, to_col) THEN fail
             ELSE [ok |-> TRUE,
                   player |-> [removed EXCEPT
                       !.board = place(@, IF from_row = -1 THEN champion ELSE lifted,
                                       to_row, to_col).grid]]

sell_champion(player, P, position) ==
    LET row == position[1]
        col == position[2]
        fail == [ok |-> FALSE, player |-> player, P |-> P]
    IN  IF row = -1
        THEN IF ~(0 <= col /\ col < BenchSize) THEN fail
             ELSE IF ~IsUnit(player.bench[col + 1]) THEN fail
             ELSE LET sold == _sell_champion([player EXCEPT !.bench[col + 1] = NoUnit], P,
                                             player.bench[col + 1])
                  IN  [ok |-> TRUE, player |-> sold.player, P |-> sold.P]
        ELSE LET rem == remove(player.board, row, col)
             IN  IF ~IsUnit(rem.champion) THEN fail
                 ELSE LET sold == _sell_champion([player EXCEPT !.board = rem.grid], P,
                                                 rem.champion)
                      IN  [ok |-> TRUE, player |-> sold.player, P |-> sold.P]

(* take_damage without the floor at 0 *)
take_damage_without_floor(player, damage) ==
    IF player.health - damage <= 0
    THEN [player EXCEPT !.health = @ - damage, !.is_alive = FALSE]
    ELSE [player EXCEPT !.health = @ - damage]

take_damage(player, damage) ==
    IF player.health - damage <= 0
    THEN [player EXCEPT !.health = 0, !.is_alive = FALSE]
    ELSE [player EXCEPT !.health = @ - damage]

---------------------------------------------------------------------------
(* Shared pieces of the initial states *)

(* The player ids a new engine or test fixture creates players for *)
InitialPlayers == 0..(NumPlayers - 1)

(* range(len(self.players)) *)
Players == DOMAIN players

default_pool_size_config == (1 :> 29) @@ (2 :> 22) @@ (3 :> 18) @@ (4 :> 12) @@ (5 :> 10) @@ (6 :> 9)

ThePool == PoolRec(pool, tier_totals, pool_size_config)

CAROUSEL_ROUNDS == {9, 18, 27, 36}

MINION_ROUNDS == {1, 2, 3}

AUGMENT_ROUNDS == {6, 13, 20}

_compute_stage(round_number) == Cardinality({c \in CAROUSEL_ROUNDS : round_number > c}) + 1

NewGameRound ==
    [current_round |-> 1, current_stage |-> 1,
     recent_opponents |-> [p \in Players |-> << >>]]

NoResult == [kind |-> "none", requires_decision |-> FALSE, game_over |-> FALSE,
             player_id |-> -1, reason |-> "none"]

CallRec(op, player, ok) ==
    [op |-> op, player |-> player, ok |-> ok, champ |-> None,
     took_last |-> FALSE, autosold |-> FALSE, follows_last |-> FALSE]

IdleEngine ==
    /\ event_queue = << >>
    /\ current_time = 0
    /\ engine = [current_round |-> 0, current_stage |-> 1, game_over_flag |-> FALSE]
    /\ pc = "caller"
    /\ ret = NoResult
    /\ history = << >>

EngineUnchanged == UNCHANGED <<event_queue, current_time, engine, pc, ret, history>>

---------------------------------------------------------------------------
(* SpecPool: a ChampionPool on which acquire and release are called directly *)

PoolIds == ChampionIds \cup {"Unknown"}

small_pool_size_config == (1 :> PoolCopiesCost1) @@ (2 :> PoolCopiesCost2)

InitPool ==
    /\ config = [gold_per_round |-> DefaultGoldPerRound, starting_health |-> 100,
                 max_game_rounds |-> 48, enable_carousel |-> FALSE,
                 enable_augments |-> FALSE]
    /\ pool_size_config = small_pool_size_config
    /\ pool = _initialize_pool(small_pool_size_config).pool
    /\ tier_totals = _initialize_pool(small_pool_size_config).tier_totals
    /\ players = [p \in InitialPlayers |-> NewPlayer(config)]
    /\ game_round = NewGameRound
    /\ IdleEngine
    /\ last_call = CallRec("init", -1, TRUE)
    /\ counters = [acquired |-> [c \in PoolIds |-> 0], released |-> [c \in PoolIds |-> 0]]

Acquire(c) ==
    LET r == acquire(ThePool, c)
    IN  /\ counters.acquired[c] + counters.released[c] < MaxPoolCalls
        /\ pool' = r.P.pool
        /\ tier_totals' = r.P.tier_totals
        /\ last_call' = [CallRec("acquire", -1, r.ok) EXCEPT !.champ = c]
        /\ counters' = IF r.ok THEN [counters EXCEPT !.acquired[c] = @ + 1] ELSE counters
        /\ UNCHANGED <<config, pool_size_config, players, game_round>>
        /\ EngineUnchanged

Release(c) ==
    LET r == release(ThePool, c)
    IN  /\ counters.acquired[c] + counters.released[c] < MaxPoolCalls
        /\ pool' = r.P.pool
        /\ tier_totals' = r.P.tier_totals
        /\ last_call' = [CallRec("release", -1, r.ok) EXCEPT !.champ = c]
        /\ counters' = IF r.ok THEN [counters EXCEPT !.released[c] = @ + 1] ELSE counters
        /\ UNCHANGED <<config, pool_size_config, players, game_round>>
        /\ EngineUnchanged

NextPool ==
    \/ \E c \in PoolIds : Acquire(c)
    \/ \E c \in PoolIds : Release(c)

SpecPool == InitPool /\ [][NextPool]_vars

initial_count(c) == max_copies(pool_size_config, Cost(c))

(* C2: for every sequence of acquire and release calls and every champion  *)
(* id of the pool, the available count stays within 0..max_copies(cost)    *)
(* and equals the initial count minus (successful acquires minus           *)
(* successful releases); acquire fails exactly when the count is 0 and     *)
(* release fails exactly when the count is at the configured maximum, and  *)
(* a failed call leaves the pool as it was.                                *)
C2_PoolConservation ==
    /\ [](\A c \in ChampionIds :
            /\ pool[c] \in 0..initial_count(c)
            /\ pool[c] = initial_count(c) - (counters.acquired[c] - counters.released[c]))
    /\ [][\A c \in ChampionIds :
            /\ (last_call'.op = "acquire" /\ last_call'.champ = c)
                => /\ last_call'.ok <=> pool[c] # 0
                   /\ ~last_call'.ok => pool' = pool /\ tier_totals' = tier_totals
                   /\ last_call'.ok => pool' = [pool EXCEPT ![c] = @ - 1]
            /\ (last_call'.op = "release" /\ last_call'.champ = c)
                => /\ last_call'.ok <=> pool[c] # initial_count(c)
                   /\ ~last_call'.ok => pool' = pool /\ tier_totals' = tier_totals
                   /\ last_call'.ok => pool' = [pool EXCEPT ![c] = @ + 1]]_vars

(* C2 witness: an acquire has just failed on an emptied id that was also   *)
(* released to before                                                      *)
C2_Witness ==
    /\ last_call.op = "acquire" /\ ~last_call.ok
    /\ last_call.champ \in ChampionIds
    /\ pool[last_call.champ] = 0
    /\ counters.released[last_call.champ] > 0
    /\ counters.acquired[last_call.champ] > counters.released[last_call.champ]

---------------------------------------------------------------------------
(* GameRound planning phase *)

(* The draws random.choice can be asked for by _grant_round1_champions:    *)
(* first[p] for the first pick of player p, second[p] for the retry.       *)
GrantPicks == [first : [Players -> ChampionIds], second : [Players -> ChampionIds]]

(* random.choice is called in _grant_round1_champions only, that is when   *)
(* current_round is 1: in every other round there is nothing to draw       *)
GrantPicksIn(current_round) ==
    IF current_round = 1 THEN GrantPicks ELSE {CHOOSE picks \in GrantPicks : TRUE}

RECURSIVE GrantFrom(_, _, _, _, _)
(* The loop of _grant_round1_champions from player i on; one_cost_ids was  *)
(* collected before the loop.  valid is FALSE when a draw lies outside the *)
(* list random.choice was given.                                           *)
GrantFrom(i, pls, P, one_cost_ids, picks) ==
    IF i \notin DOMAIN pls THEN [players |-> pls, P |-> P, valid |-> TRUE]
    ELSE IF ~pls[i].is_alive THEN GrantFrom(i + 1, pls, P, one_cost_ids, picks)
    ELSE IF one_cost_ids = {} THEN [players |-> pls, P |-> P, valid |-> TRUE]
    ELSE
        LET c == picks.first[i]
            c2 == picks.second[i]
            acq == acquire(P, c)
            available == {x \in one_cost_ids : is_available(P, x)}
        IN  IF c \notin one_cost_ids THEN [players |-> pls, P |-> P, valid |-> FALSE]
            ELSE IF acq.ok
            THEN GrantFrom(i + 1,
                           [pls EXCEPT ![i] = _add_to_bench(@, create_champion(c)).player],
                           acq.P, one_cost_ids, picks)
            ELSE IF available = {} THEN [players |-> pls, P |-> P, valid |-> TRUE]
            ELSE IF c2 \notin available THEN [players |-> pls, P |-> P, valid |-> FALSE]
            ELSE GrantFrom(i + 1,
                           [pls EXCEPT ![i] = _add_to_bench(@, create_champion(c2)).player],
                           acquire(P, c2).P, one_cost_ids, picks)

(* _grant_round1_champions handing out units it has not taken from the pool *)
_grant_round1_champions_without_acquire(pls, P, picks) ==
    [GrantFrom(0, pls, P, {c \in DOMAIN P.pool : P.pool[c] > 0 /\ Cost(c) = 1}, picks)
        EXCEPT !.P = P]

_grant_round1_champions(pls, P, picks) ==
    GrantFrom(0, pls, P, {c \in DOMAIN P.pool : P.pool[c] > 0 /\ Cost(c) = 1}, picks)

(* The shops sample_shop can hand to the players, shops[p] for player p *)
ShopDraws(pls, P) ==
    {sh \in [Players -> [1..ShopSize -> ChampionIds \cup {None}]] :
        \A p \in Players : sh[p] \in sample_shop(P, pls[p].level)}

(* The first loop of start_planning_phase without its test of is_alive *)
PlanningSetup_for_all(pls, cfg, shops) ==
    [p \in Players |->
        [start_of_round_gold(_generate_shop(pls[p], shops[p]), cfg)
            EXCEPT !.rounds_survived = @ + 1]]

(* The first loop of start_planning_phase *)
PlanningSetup(pls, cfg, shops) ==
    [p \in Players |->
        IF pls[p].is_alive
        THEN [start_of_round_gold(_generate_shop(pls[p], shops[p]), cfg)
                 EXCEPT !.rounds_survived = @ + 1]
        ELSE pls[p]]

(* GameRound.start_planning_phase under the draws shops and picks *)
start_planning_phase(pls, P, gr, cfg, shops, picks) ==
    LET setup == PlanningSetup(pls, cfg, shops)
    IN  IF gr.current_round = 1
        THEN _grant_round1_champions(setup, P, picks)
        ELSE [players |-> setup, P |-> P, valid |-> TRUE]

advance_round(gr) ==
    [gr EXCEPT !.current_round = @ + 1, !.current_stage = _compute_stage(gr.current_round + 1)]

GoldWithinBound(pls) == \A p \in Players : pls[p].gold <= MaxGold

---------------------------------------------------------------------------
(* SpecPlayer: Player and GameRound methods called directly, in any order *)

InitPlayer ==
    /\ config = [gold_per_round |-> DefaultGoldPerRound, starting_health |-> 100,
                 max_game_rounds |-> 48, enable_carousel |-> FALSE,
                 enable_augments |-> FALSE]
    /\ pool_size_config = small_pool_size_config
    /\ pool = _initialize_pool(small_pool_size_config).pool
    /\ tier_totals = _initialize_pool(small_pool_size_config).tier_totals
    /\ players = [p \in InitialPlayers |-> NewPlayer(config)]
    /\ game_round = NewGameRound
    /\ IdleEngine
    /\ last_call = CallRec("init", -1, TRUE)
    /\ counters = [acquired |-> [c \in PoolIds |-> 0], released |-> [c \in PoolIds |-> 0]]

ShopIndexes == -1..ShopSize

TestPositions ==
    {<<-1, col>> : col \in 0..BenchSize} \cup {<<0, 0>>, <<0, 1>>, <<Rows, 0>>}

PlayerUnchanged == UNCHANGED <<config, pool_size_config, game_round, counters>>

CallStartPlanningPhase ==
    /\ game_round.current_round <= MaxPlanning
    /\ players[0].rounds_survived = game_round.current_round - 1
    /\ \E shops \in ShopDraws(players, ThePool), picks \in GrantPicks :
        LET out == start_planning_phase(players, ThePool, game_round, config, shops, picks)
        IN  /\ out.valid
            /\ GoldWithinBound(out.players)
            /\ players' = out.players
            /\ pool' = out.P.pool
            /\ tier_totals' = out.P.tier_totals
            /\ last_call' = CallRec("start_planning_phase", -1, TRUE)
            /\ PlayerUnchanged /\ EngineUnchanged

CallAdvanceRound ==
    /\ players[0].rounds_survived = game_round.current_round
    /\ game_round' = advance_round(game_round)
    /\ last_call' = CallRec("advance_round", -1, TRUE)
    /\ UNCHANGED <<config, pool_size_config, pool, tier_totals, players, counters>>
    /\ EngineUnchanged

CallBuyXp(p) ==
    LET r == buy_xp(players[p])
    IN  /\ players' = [players EXCEPT ![p] = r.player]
        /\ last_call' = CallRec("buy_xp", p, r.ok)
        /\ UNCHANGED <<pool, tier_totals>>
        /\ PlayerUnchanged /\ EngineUnchanged

CallRefreshShop(p) ==
    \E new_shop \in sample_shop(ThePool, players[p].level) :
        LET r == refresh_shop(players[p], new_shop)
        IN  /\ players' = [players EXCEPT ![p] = r.player]
            /\ last_call' = CallRec("refresh_shop", p, r.ok)
            /\ UNCHANGED <<pool, tier_totals>>
            /\ PlayerUnchanged /\ EngineUnchanged

(* What a purchase records about itself for the step that follows it *)
BuyCall(p, shop_index, r) ==
    LET c == IF 0 <= shop_index /\ shop_index < ShopSize
             THEN players[p].shop[shop_index + 1] ELSE None
    IN  [CallRec("buy_champion_from_shop", p, r.ok) EXCEPT
            !.champ = c,
            !.took_last = r.ok /\ get_available(ThePool, c) = 1,
            !.autosold = r.autosold,
            !.follows_last = /\ c \in ChampionIds
                             /\ last_call.op = "buy_champion_from_shop"
                             /\ last_call.took_last
                             /\ last_call.player # p
                             /\ last_call.champ = c
                             /\ players[p].gold >= Cost(c)]

CallBuyChampion(p, shop_index) ==
    LET r == buy_champion_from_shop(players[p], ThePool, shop_index)
    IN  /\ players' = [players EXCEPT ![p] = r.player]
        /\ pool' = r.P.pool
        /\ tier_totals' = r.P.tier_totals
        /\ last_call' = BuyCall(p, shop_index, r)
        /\ PlayerUnchanged /\ EngineUnchanged

CallSellChampion(p, position) ==
    LET r == sell_champion(players[p], ThePool, position)
    IN  /\ players' = [players EXCEPT ![p] = r.player]
        /\ pool' = r.P.pool
        /\ tier_totals' = r.P.tier_totals
        /\ last_call' = CallRec("sell_champion", p, r.ok)
        /\ PlayerUnchanged /\ EngineUnchanged

CallMoveChampion(p, from_pos, to_pos) ==
    LET r == move_champion(players[p], from_pos, to_pos)
    IN  /\ players' = [players EXCEPT ![p] = r.player]
        /\ last_call' = CallRec("move_champion", p, r.ok)
        /\ UNCHANGED <<pool, tier_totals>>
        /\ PlayerUnchanged /\ EngineUnchanged

(* The players whose methods are called; the others keep what the planning *)
(* phase gave them                                                         *)
Actors == {p \in Players : p < 1}

NextPlayer ==
    \/ CallStartPlanningPhase
    \/ CallAdvanceRound
    \/ \E p \in Actors : CallBuyXp(p)
    \/ \E p \in Actors : CallRefreshShop(p)
    \/ \E p \in Actors, i \in ShopIndexes : CallBuyChampion(p, i)
    \/ \E p \in Actors, pos \in TestPositions : CallSellChampion(p, pos)
    \/ \E p \in Actors, a \in TestPositions, b \in TestPositions : CallMoveChampion(p, a, b)

SpecPlayer == InitPlayer /\ [][NextPlayer]_vars

---------------------------------------------------------------------------
(* Copy accounting *)

Locs == {BenchOrder[i] : i \in 1..BenchSize} \cup Cells

(* Number of units of champion c at star level s a player holds *)
CountStar(player, c, s) ==
    Cardinality({loc \in Locs : LET u == UnitAt(player, loc)
                                IN  IsUnit(u) /\ u.id = c /\ u.stars = s})

RECURSIVE BaseCopiesUpTo(_, _, _)
BaseCopiesUpTo(player, c, s) ==
    IF s = 0 THEN 0
    ELSE CountStar(player, c, s) * Pow3(s - 1) + BaseCopiesUpTo(player, c, s - 1)

(* Base-copy equivalent of champion c a player holds: sum of 3^(stars-1) *)
BaseCopies(player, c) == BaseCopiesUpTo(player, c, MaxStars)

RECURSIVE HeldByAll(_, _)
HeldByAll(c, n) ==
    IF n = 0 THEN 0 ELSE BaseCopies(players[n - 1], c) + HeldByAll(c, n - 1)

(* C1: in every reachable state, for each champion id, the pool's count    *)
(* plus the base-copy equivalent of all players' bench and board units of  *)
(* that id equals the pool's initial count.                                *)
C1_CopyConservation ==
    \A c \in ChampionIds : pool[c] + HeldByAll(c, NumPlayers) = initial_count(c)

(* C3: when a player holding exactly two copies of a champion at star s    *)
(* buys a third copy at star s (s = 1, the star a purchase has), no star-s *)
(* copy of that champion is left, one more copy at star s+1 is held, and   *)
(* the base-copy equivalent grows by the one copy acquired.                *)
C3_UpgradeConservation ==
    [][\A p \in Players, c \in ChampionIds :
        (/\ last_call'.op = "buy_champion_from_shop"
         /\ last_call'.ok /\ ~last_call'.autosold
         /\ last_call'.player = p /\ last_call'.champ = c
         /\ CountStar(players[p], c, 1) = 2)
        => /\ CountStar(players'[p], c, 1) = 0
           /\ CountStar(players'[p], c, 2) = CountStar(players[p], c, 2) + 1
           /\ BaseCopies(players'[p], c) = BaseCopies(players[p], c) + 1]_vars

FailingOps ==
    {"buy_xp", "refresh_shop", "buy_champion_from_shop", "sell_champion", "move_champion"}

(* C4: whenever buy_xp, refresh_shop, buy_champion_from_shop,              *)
(* sell_champion or move_champion returns failure, every player (gold, XP, *)
(* level, free rerolls, shop, bench, board) and the shared pool are as     *)
(* before the call; a level-1 player with 0 gold cannot buy_xp.            *)
C4_NoPartialMutation ==
    [][/\ (last_call'.op \in FailingOps /\ ~last_call'.ok)
            => players' = players /\ pool' = pool /\ tier_totals' = tier_totals
       /\ \A p \in Players :
            (last_call'.op = "buy_xp" /\ last_call'.player = p
                /\ players[p].level = 1 /\ players[p].gold = 0)
            => ~last_call'.ok]_vars

(* C4 witness: after a planning phase a level-1 player who spent all the   *)
(* gold has just been refused by buy_xp                                    *)
C4_Witness ==
    /\ last_call.op = "buy_xp" /\ ~last_call.ok
    /\ last_call.player \in Actors
    /\ players[last_call.player].level = 1
    /\ players[last_call.player].gold = 0
    /\ players[last_call.player].rounds_survived > 0
    /\ \E loc \in Locs : IsUnit(UnitAt(players[last_call.player], loc))

---------------------------------------------------------------------------
(* SpecShop: after the planning phase every player refreshes and buys, in  *)
(* any order                                                               *)

NextShop ==
    \/ CallStartPlanningPhase
    \/ \E p \in Players : CallRefreshShop(p)
    \/ \E p \in Players, i \in ShopIndexes : CallBuyChampion(p, i)

SpecShop == InitPlayer /\ [][NextShop]_vars

(* The step is a purchase of champion c by player q *)
BuysNow(q, c) ==
    /\ last_call'.op = "buy_champion_from_shop"
    /\ last_call'.player = q
    /\ last_call'.champ = c

(* The call before was player p taking the last copy of c from the pool *)
TookLastBefore(p, c) ==
    /\ last_call.op = "buy_champion_from_shop"
    /\ last_call.player = p
    /\ last_call.champ = c
    /\ last_call.took_last

Shows(player, c) == \E i \in 1..ShopSize : player.shop[i] = c

(* The first of the two purchases succeeds *)
FirstBuySucceeds ==
    \A p \in Players, q \in Players, c \in ChampionIds :
        (/\ p # q /\ BuysNow(p, c)
         /\ pool[c] = 1 /\ Shows(players[q], c)
         /\ players[p].gold >= Cost(c) /\ players[q].gold >= Cost(c))
        => last_call'.ok /\ last_call'.took_last

(* The second purchase fails and changes nothing *)
SecondBuyFails ==
    /\ ~last_call'.ok
    /\ players' = players
    /\ pool' = pool /\ tier_totals' = tier_totals

---------------------------------------------------------------------------
(* EventEngine: the priority queue of events.  Positions are counted from  *)
(* 0 as heapq does; heap[pos + 1] is the element at position pos.          *)

(* Event ordering: dataclass(order=True) with timestamp the only field     *)
(* that is compared                                                        *)
Less_with_player(a, b) ==
    \/ a.timestamp < b.timestamp
    \/ a.timestamp = b.timestamp /\ a.player_id < b.player_id

Less(a, b) == a.timestamp < b.timestamp

RECURSIVE SiftDownLoop(_, _, _, _)
SiftDownLoop(heap, startpos, pos, newitem) ==
    IF pos > startpos
    THEN LET parentpos == (pos - 1) \div 2
             parent == heap[parentpos + 1]
         IN  IF Less(newitem, parent)
             THEN SiftDownLoop([heap EXCEPT ![pos + 1] = parent], startpos, parentpos, newitem)
             ELSE [heap EXCEPT ![pos + 1] = newitem]
    ELSE [heap EXCEPT ![pos + 1] = newitem]

_siftdown(heap, startpos, pos) == SiftDownLoop(heap, startpos, pos, heap[pos + 1])

RECURSIVE SiftUpLoop(_, _, _)
SiftUpLoop(heap, pos, childpos) ==
    IF childpos < Len(heap)
    THEN LET rightpos == childpos + 1
             smaller == IF rightpos < Len(heap)
                           /\ ~Less(heap[childpos + 1], heap[rightpos + 1])
                        THEN rightpos ELSE childpos
         IN  SiftUpLoop([heap EXCEPT ![pos + 1] = heap[smaller + 1]],
                        smaller, 2 * smaller + 1)
    ELSE [heap |-> heap, pos |-> pos]

_siftup(heap, pos) ==
    LET newitem == heap[pos + 1]
        leaf == SiftUpLoop(heap, pos, 2 * pos + 1)
    IN  _siftdown([leaf.heap EXCEPT ![leaf.pos + 1] = newitem], pos, leaf.pos)

heappush(heap, item) == _siftdown(Append(heap, item), 0, Len(heap))

heappop(heap) ==
    LET lastelt == heap[Len(heap)]
        rest == SubSeq(heap, 1, Len(heap) - 1)
    IN  IF rest # << >>
        THEN [item |-> rest[1], heap |-> _siftup([rest EXCEPT ![1] = lastelt], 0)]
        ELSE [item |-> lastelt, heap |-> rest]

(* seq is the number of the schedule_event call that made the event; the   *)
(* program does not hold it                                                *)
Event(timestamp, event_type, player_id, data, handler, seq) ==
    [timestamp |-> timestamp, event_type |-> event_type, player_id |-> player_id,
     data |-> data, handler |-> handler, seq |-> seq]

schedule_event(queue, timestamp, event_type, player_id, data, handler, seq) ==
    heappush(queue, Event(timestamp, event_type, player_id, data, handler, seq))

(* The kinds _register_handlers registers a handler for *)
RegisteredKinds ==
    {"START_PLANNING", "END_PLANNING", "START_COMBAT", "END_COMBAT", "END_ROUND",
     "PLAYER_ACTION_REQUIRED", "GAME_END", "CAROUSEL", "AUGMENT_SELECTION"}

(* event.handler or self.handlers.get(event.event_type) *)
HandlerFor(event) ==
    IF event.handler # None THEN event.handler
    ELSE IF event.event_type \in RegisteredKinds THEN event.event_type
    ELSE None

---------------------------------------------------------------------------
(* SpecEngine: schedule_event and process_next_event called directly on an *)
(* EventEngine, in any order                                               *)

InitEngine ==
    /\ config = [gold_per_round |-> DefaultGoldPerRound, starting_health |-> 100,
                 max_game_rounds |-> 48, enable_carousel |-> FALSE,
                 enable_augments |-> FALSE]
    /\ pool_size_config = small_pool_size_config
    /\ pool = _initialize_pool(small_pool_size_config).pool
    /\ tier_totals = _initialize_pool(small_pool_size_config).tier_totals
    /\ players = [p \in InitialPlayers |-> NewPlayer(config)]
    /\ game_round = NewGameRound
    /\ IdleEngine
    /\ last_call = CallRec("init", -1, TRUE)
    /\ counters = [scheduled |-> 0, processed_at_entry |-> 0]

(* What the caller passes besides the timestamp *)
EventChoices ==
    {[event_type |-> "START_PLANNING", player_id |-> -1, data |-> 0, handler |-> None],
     [event_type |-> "PORTAL_ACTIVATE", player_id |-> 0, data |-> 1, handler |-> None],
     [event_type |-> "PORTAL_ACTIVATE", player_id |-> 1, data |-> 1, handler |-> "custom"]}

(* Events for run_until_decision_point: with and without a handler, with   *)
(* and without a flag in the handler's result                              *)
RunChoices ==
    {[event_type |-> "PLAYER_ACTION_REQUIRED", player_id |-> 0, data |-> 1, handler |-> None],
     [event_type |-> "GAME_END", player_id |-> -1, data |-> 0, handler |-> None],
     [event_type |-> "PORTAL_ACTIVATE", player_id |-> 0, data |-> 1, handler |-> None],
     [event_type |-> "PORTAL_ACTIVATE", player_id |-> 1, data |-> 1, handler |-> "custom"]}

(* What the handlers of SpecEngine and SpecRun return: dictionaries shaped as those of *)
(* _handle_player_action and _handle_game_end, and a dictionary without    *)
(* flags from every other handler                                          *)
HandlerResult(event, handler) ==
    IF handler = "PLAYER_ACTION_REQUIRED"
    THEN [NoResult EXCEPT !.kind = handler, !.requires_decision = TRUE,
                          !.player_id = event.player_id]
    ELSE IF handler = "GAME_END"
    THEN [NoResult EXCEPT !.kind = handler, !.game_over = TRUE]
    ELSE [NoResult EXCEPT !.kind = handler]

(* run_until_decision_point: any truthy result ends the loop *)
ShouldReturn_any_result(result) == result.kind # "none"

(* run_until_decision_point: the tests on a handler's result that end the  *)
(* loop                                                                    *)
ShouldReturn(result) ==
    result.kind # "none" /\ (result.requires_decision \/ result.game_over)

(* The result of run_until_decision_point when the queue is exhausted *)
NoMoreEvents ==
    [NoResult EXCEPT !.kind = "result", !.game_over = TRUE, !.reason = "no_more_events"]

EngineRest == UNCHANGED <<config, pool_size_config, pool, tier_totals, players,
                          game_round, engine>>

CallScheduleEvent(timestamp, e) ==
    /\ pc = "caller"
    /\ counters.scheduled < MaxEvents
    /\ event_queue' = schedule_event(event_queue, timestamp, e.event_type, e.player_id,
                                     e.data, e.handler, counters.scheduled + 1)
    /\ counters' = [counters EXCEPT !.scheduled = @ + 1]
    /\ history' = Append(history,
                          [op |-> "schedule",
                           event |-> Event(timestamp, e.event_type, e.player_id, e.data,
                                           e.handler, counters.scheduled + 1),
                           handler |-> None, result |-> NoResult])
    /\ last_call' = CallRec("schedule_event", -1, TRUE)
    /\ UNCHANGED <<current_time, ret, pc>>
    /\ EngineRest

(* process_next_event on a non-empty queue, with handlers that only return *)
(* a result                                                                *)
ProcessQueued ==
    LET popped == heappop(event_queue)
        event == popped.item
        handler == HandlerFor(event)
        result == IF handler # None THEN HandlerResult(event, handler) ELSE NoResult
    IN  /\ event_queue' = popped.heap
        /\ current_time' = event.timestamp
        /\ history' = Append(history, [op |-> "process", event |-> event,
                                       handler |-> handler, result |-> result])
        /\ ret' = result

CallProcessNextEvent ==
    /\ pc = "caller"
    /\ IF event_queue = << >>
       THEN /\ ret' = NoResult
            /\ UNCHANGED <<event_queue, current_time, history>>
       ELSE ProcessQueued
    /\ last_call' = CallRec("process_next_event", -1, event_queue # << >>)
    /\ UNCHANGED <<counters, pc>>
    /\ EngineRest

CallRunUntilDecisionPoint ==
    /\ pc = "caller"
    /\ pc' = "loop"
    /\ counters' = [counters EXCEPT
            !.processed_at_entry = Len(SelectSeq(history, LAMBDA h : h.op = "process"))]
    /\ last_call' = CallRec("run_until_decision_point", -1, TRUE)
    /\ UNCHANGED <<event_queue, current_time, ret, history>>
    /\ EngineRest

(* One pass of the while loop of run_until_decision_point, or its exit *)
RunLoopStep ==
    /\ pc = "loop"
    /\ IF event_queue = << >>
       THEN /\ ret' = NoMoreEvents
            /\ pc' = "caller"
            /\ last_call' = CallRec("run_until_decision_point", -1, TRUE)
            /\ UNCHANGED <<event_queue, current_time, history>>
       ELSE /\ ProcessQueued
            /\ pc' = IF ShouldReturn(ret') THEN "caller" ELSE "loop"
            /\ last_call' = CallRec("process_next_event", -1, TRUE)
    /\ UNCHANGED counters
    /\ EngineRest

NextEngine ==
    \/ \E timestamp \in 0..MaxTime, e \in EventChoices : CallScheduleEvent(timestamp, e)
    \/ CallProcessNextEvent

SpecEngine == InitEngine /\ [][NextEngine]_vars

NextRun ==
    \/ \E timestamp \in 0..MaxTime, e \in RunChoices : CallScheduleEvent(timestamp, e)
    \/ CallRunUntilDecisionPoint
    \/ RunLoopStep

SpecRun == InitEngine /\ [][NextRun]_vars

(* The events taken by process_next_event so far, oldest first *)
Processed == SelectSeq(history, LAMBDA h : h.op = "process")

RECURSIVE ReplayFrom(_, _, _)
(* The seq numbers taken when the calls of history from the i-th on are    *)
(* made on heap with the kind, player id, payload and handler of the event *)
(* of the n-th schedule_event call replaced by those of f[n]; timestamps   *)
(* stay                                                                    *)
ReplayFrom(i, heap, f) ==
    IF i > Len(history') THEN << >>
    ELSE IF history'[i].op = "schedule"
    THEN LET ev == history'[i].event
         IN  ReplayFrom(i + 1,
                        schedule_event(heap, ev.timestamp, f[ev.seq].event_type,
                                       f[ev.seq].player_id, f[ev.seq].data,
                                       f[ev.seq].handler, ev.seq),
                        f)
    ELSE LET popped == heappop(heap)
         IN  <<popped.item.seq>> \o ReplayFrom(i + 1, popped.heap, f)

Queued(queue) == {queue[i] : i \in 1..Len(queue)}

(* C9: process_next_event removes an event whose timestamp is minimal      *)
(* among all queued events, invokes its handler (the event's own, else the *)
(* one registered for its kind), and sets current_time to the event's      *)
(* timestamp; the same calls made with other kinds, player ids, payloads   *)
(* and handlers take the events in the same order.                         *)
C9_SchedulerOrder ==
    [][(last_call'.op = "process_next_event" /\ event_queue # << >>)
        => LET done == history'[Len(history')]
           IN  /\ history' = Append(history, done)
               /\ done.event \in Queued(event_queue)
               /\ \A x \in Queued(event_queue) : done.event.timestamp <= x.timestamp
               /\ Queued(event_queue') = Queued(event_queue) \ {done.event}
               /\ Len(event_queue') = Len(event_queue) - 1
               /\ current_time' = done.event.timestamp
               /\ done.handler = HandlerFor(done.event)
               /\ HandlerFor(done.event) # None => ret'.kind = HandlerFor(done.event)
               /\ \A f \in [1..counters.scheduled -> EventChoices] :
                    ReplayFrom(1, << >>, f)
                        = [i \in 1..Len(Processed') |-> Processed'[i].event.seq]]_vars

(* C9 witness: an event with a handler was taken from among several queued *)
(* events of different kinds, one of them with a later timestamp that was  *)
(* scheduled before it                                                     *)
C9_Witness ==
    /\ last_call.op = "process_next_event" /\ last_call.ok
    /\ history # << >>
    /\ history[Len(history)].handler # None
    /\ \E x \in Queued(event_queue) :
        /\ x.timestamp > history[Len(history)].event.timestamp
        /\ x.seq < history[Len(history)].event.seq
        /\ x.event_type # history[Len(history)].event.event_type
    /\ Len(event_queue) >= 2

(* C10: events with equal timestamps are processed in the order in which   *)
(* they were scheduled.                                                    *)
C10_FifoAmongTies ==
    \A i \in 1..Len(Processed), j \in 1..Len(Processed) :
        (i < j /\ Processed[i].event.timestamp = Processed[j].event.timestamp)
        => Processed[i].event.seq < Processed[j].event.seq

(* The events processed by the current or last run_until_decision_point *)
ProcessedThisRun ==
    SubSeq(Processed, counters.processed_at_entry + 1, Len(Processed))

Flagged(result) == result.requires_decision \/ result.game_over

(* C8: run_until_decision_point keeps processing events and returns only   *)
(* when a handler result flags requires_decision or game_over, returning   *)
(* that result, or when the queue has emptied, returning the implicit      *)
(* game-over result with reason no_more_events; it never returns while     *)
(* events remain queued and no handler has produced one of those flags.    *)
C8_RunUntilDecisionPoint ==
    [][/\ (pc = "loop" /\ pc' = "caller")
            => IF event_queue = << >>
               THEN ret' = NoMoreEvents /\ history' = history
               ELSE /\ Len(Processed') = Len(Processed) + 1
                    /\ ret' = Processed'[Len(Processed')].result
                    /\ Flagged(ret') /\ ret'.reason # "no_more_events"
       /\ (pc = "loop" /\ pc' = "loop")
            => /\ event_queue # << >>
               /\ Len(Processed') = Len(Processed) + 1
               /\ ~Flagged(Processed'[Len(Processed')].result)]_vars

(* C8 witness: a call went past an event whose handler returned a result  *)
(* without a flag and has returned the next handler's flagged result while *)
(* an event is still queued                                                *)
C8_Witness ==
    /\ pc = "caller" /\ last_call.op = "process_next_event"
    /\ Len(ProcessedThisRun) = 2
    /\ ProcessedThisRun[1].handler # None /\ ~Flagged(ProcessedThisRun[1].result)
    /\ ret = ProcessedThisRun[2].result /\ ret.requires_decision
    /\ event_queue # << >>

---------------------------------------------------------------------------
(* GameRound combat phase *)

get_round_type(round_number) ==
    IF round_number \in CAROUSEL_ROUNDS THEN "carousel"
    ELSE IF round_number \in MINION_ROUNDS THEN "minion"
    ELSE "combat"

(* config.round_damage.get(round_number, 0) *)
round_damage(round_number) ==
    IF round_number \in 1..3 THEN 0
    ELSE IF round_number \in 4..6 THEN 2
    ELSE IF round_number \in 7..9 THEN 3
    ELSE IF round_number \in 10..13 THEN 4
    ELSE IF round_number \in 14..17 THEN 5
    ELSE IF round_number \in 18..21 THEN 6
    ELSE IF round_number \in 22..25 THEN 7
    ELSE 0

RECURSIVE SumStars(_)
SumStars(team) == IF team = << >> THEN 0 ELSE Head(team).stars + SumStars(Tail(team))

(* _calculate_damage without the stars of the winning team's units *)
_calculate_damage_base_only(winning_team, round_number) ==
    LET total_damage == round_damage(round_number)
    IN  IF total_damage < 0 THEN 0 ELSE total_damage

(* Every unit of a team handed to resolve_combat has full health *)
_calculate_damage(winning_team, round_number) ==
    LET total_damage == round_damage(round_number) + SumStars(winning_team)
    IN  IF total_damage < 0 THEN 0 ELSE total_damage

(* winner_draw is the side random.random() decides for when both teams     *)
(* have units; the clamp of the win probability to [0.1, 0.9] leaves both   *)
(* sides possible                                                           *)
_statistical_combat(team1, team2, round_number, winner_draw) ==
    IF team1 = << >> /\ team2 = << >> THEN [winner |-> -1, damage |-> 0]
    ELSE IF team1 = << >>
    THEN [winner |-> 1, damage |-> _calculate_damage(team2, round_number)]
    ELSE IF team2 = << >>
    THEN [winner |-> 0, damage |-> _calculate_damage(team1, round_number)]
    ELSE [winner |-> winner_draw,
          damage |-> _calculate_damage(IF winner_draw = 0 THEN team1 ELSE team2,
                                       round_number)]

(* [p for p in self.players if p.is_alive], as player ids *)
AliveSeq(pls) ==
    SelectSeq([i \in 1..Cardinality(DOMAIN pls) |-> i - 1], LAMBDA p : pls[p].is_alive)

SeqRange(seq) == {seq[i] : i \in DOMAIN seq}

(* The orders random.shuffle can leave the living players in *)
Shuffles(pls) ==
    {order \in [1..Len(AliveSeq(pls)) -> Players] :
        SeqRange(order) = SeqRange(AliveSeq(pls))}

(* recent[-3:] *)
Last3(recent) ==
    SubSeq(recent, IF Len(recent) > 3 THEN Len(recent) - 2 ELSE 1, Len(recent))

RECURSIVE MatchLoop(_, _, _)
(* The while loop of _determine_matchups and the ghost pairing after it *)
MatchLoop(available, recent_opponents, matchups) ==
    IF Len(available) < 2
    THEN [matchups |-> IF available # << >>
                       THEN Append(matchups, <<available[1], -1>>) ELSE matchups,
          recent_opponents |-> recent_opponents]
    ELSE LET p1 == Head(available)
             rest == Tail(available)
             fresh == SelectSeq(rest,
                        LAMBDA c : c \notin SeqRange(Last3(recent_opponents[p1])))
             p2 == IF fresh # << >> THEN fresh[1] ELSE rest[1]
         IN  MatchLoop(SelectSeq(rest, LAMBDA c : c # p2),
                       [recent_opponents EXCEPT ![p1] = Append(@, p2),
                                                ![p2] = Append(@, p1)],
                       Append(matchups, <<p1, p2>>))

(* _determine_matchups without the ghost pairing of the player left over *)
_determine_matchups_without_ghost(order, recent_opponents) ==
    LET m == MatchLoop(order, recent_opponents, << >>)
    IN  [m EXCEPT !.matchups = SelectSeq(@, LAMBDA pair : pair[2] # -1)]

(* order is the list after random.shuffle *)
_determine_matchups(order, recent_opponents) == MatchLoop(order, recent_opponents, << >>)

(* A combat phase ends with raised = TRUE when it leaves by an exception.  *)
(* Player defines neither update_streak nor grant_item_component, so the   *)
(* first call of either raises AttributeError; what was assigned before    *)
(* the call stays assigned.                                                *)
CombatOutcome(pls, gr, raised) == [players |-> pls, game_round |-> gr, raised |-> raised]

_run_minion_phase(pls, gr) == CombatOutcome(pls, gr, AliveSeq(pls) # << >>)

_run_carousel_phase(pls, gr) == CombatOutcome(pls, gr, AliveSeq(pls) # << >>)

(* _run_pvp_phase with the damage of the first matchup dealt to both of    *)
(* its players                                                             *)
_run_pvp_phase_both_take_damage(pls, gr, order, winner_draw) ==
    IF Len(AliveSeq(pls)) <= 1 THEN CombatOutcome(pls, gr, FALSE)
    ELSE LET m == _determine_matchups(order, gr.recent_opponents)
             player1_id == m.matchups[1][1]
             player2_id == m.matchups[1][2]
             combat == _statistical_combat(get_all_champions(pls[player1_id].board),
                                           get_all_champions(pls[player2_id].board),
                                           gr.current_round, winner_draw)
             after == IF combat.winner \in {0, 1}
                      THEN [pls EXCEPT ![player1_id] = take_damage(@, combat.damage),
                                       ![player2_id] = take_damage(@, combat.damage)]
                      ELSE pls
         IN  CombatOutcome(after, [gr EXCEPT !.recent_opponents = m.recent_opponents],
                           TRUE)

(* With two or more living players the first matchup is a pair; its loser  *)
(* takes the damage and the call of update_streak that follows raises.     *)
_run_pvp_phase(pls, gr, order, winner_draw) ==
    IF Len(AliveSeq(pls)) <= 1 THEN CombatOutcome(pls, gr, FALSE)
    ELSE LET m == _determine_matchups(order, gr.recent_opponents)
             player1_id == m.matchups[1][1]
             player2_id == m.matchups[1][2]
             combat == _statistical_combat(get_all_champions(pls[player1_id].board),
                                           get_all_champions(pls[player2_id].board),
                                           gr.current_round, winner_draw)
             after == IF combat.winner = 0
                      THEN [pls EXCEPT ![player2_id] = take_damage(@, combat.damage)]
                      ELSE IF combat.winner = 1
                      THEN [pls EXCEPT ![player1_id] = take_damage(@, combat.damage)]
                      ELSE pls
         IN  CombatOutcome(after, [gr EXCEPT !.recent_opponents = m.recent_opponents],
                           TRUE)

run_combat_phase(pls, gr, order, winner_draw) ==
    LET round_type == get_round_type(gr.current_round)
    IN  IF round_type = "carousel" THEN _run_carousel_phase(pls, gr)
        ELSE IF round_type = "minion" THEN _run_minion_phase(pls, gr)
        ELSE _run_pvp_phase(pls, gr, order, winner_draw)

(* update_active_traits and reset_for_combat write active_traits and the   *)
(* units' combat statistics only, which the player records here do not     *)
(* carry                                                                   *)
end_planning_phase(pls) == pls

(* is_game_over without the count of living players *)
is_game_over_by_round_limit_only(pls, gr, cfg) ==
    gr.current_round > cfg.max_game_rounds

is_game_over(pls, gr, cfg) ==
    Len(AliveSeq(pls)) <= 1 \/ gr.current_round > cfg.max_game_rounds

RECURSIVE SortedByRoundsSurvived(_, _)
(* dead_players.sort(key=lambda x: x[1], reverse=True): list.sort is       *)
(* stable, so players with equal rounds_survived keep their list order     *)
SortedByRoundsSurvived(dead_players, pls) ==
    IF dead_players = << >> THEN << >>
    ELSE LET first == Head(dead_players)
             rest == Tail(dead_players)
         IN  SortedByRoundsSurvived(
                 SelectSeq(rest, LAMBDA q : pls[q].rounds_survived > pls[first].rounds_survived),
                 pls)
             \o <<first>>
             \o SortedByRoundsSurvived(
                 SelectSeq(rest, LAMBDA q : pls[q].rounds_survived <= pls[first].rounds_survived),
                 pls)

(* The dictionary get_placements returns, as a function of the player ids *)
get_placements(pls) ==
    LET alive_players == AliveSeq(pls)
        dead_players ==
            SortedByRoundsSurvived(
                SelectSeq([i \in 1..Cardinality(DOMAIN pls) |-> i - 1],
                          LAMBDA p : ~pls[p].is_alive),
                pls)
    IN  [p \in DOMAIN pls |->
            IF pls[p].is_alive THEN 1
            ELSE Len(alive_players)
                 + (CHOOSE i \in DOMAIN dead_players : dead_players[i] = p)]

----------------------------------------------------------------------------
(* Augments: the hooks and the registry of simulator/env/augment_effects.  *)
(* A unit that carries combat stats has, besides id, stars and position,   *)
(* the fields attack_range, fires_missiles and shield; an attribute the    *)
(* code has not set yet reads as FALSE or 0. max_hp and current_hp are     *)
(* functions of the stars (no unit is hurt outside a combat), in           *)
(* thousandths of a health point.                                          *)

RumbleCarry == "TFT16_Augment_RumbleCarry"

Exiles2 == "TFT16_Augment_Exiles2"

Epoch == "TFT16_Augment_Epoch"

EpochPlus == "TFT16_Augment_EpochPlus"

Augment(augment_id, effects) == [augment_id |-> augment_id, effects |-> effects]

(* effects.get(key, default) *)
EffectGet(effects, key, default) ==
    IF key \in DOMAIN effects THEN effects[key] ELSE default

AugmentResult(success, grants, affected_champions, xp_delta, rerolls_granted) ==
    [success |-> success, grants |-> grants, gold_delta |-> 0,
     affected_champions |-> affected_champions, xp_delta |-> xp_delta,
     rerolls_granted |-> rerolls_granted]

(* AugmentResult(success=True): every other field at its default *)
NeutralResult == AugmentResult(TRUE, << >>, << >>, 0, 0)

HookOut(player, P, result) == [player |-> player, P |-> P, result |-> result]

create_champion_with_stats(champion_id) ==
    [id |-> champion_id, stars |-> 1, position |-> NoPos,
     attack_range |-> stats_attack_range(champion_id),
     fires_missiles |-> FALSE, shield |-> 0]

star_multipliers(stars) ==
    CASE stars = 1 -> 1000 [] stars = 2 -> 1800 [] stars = 3 -> 3240
      [] stars = 4 -> 5832 [] OTHER -> 1000

max_hp(champion) == BaseHp * star_multipliers(champion.stars)

(* The units of a player as the places that hold them: board, then bench *)
_get_all_champions(player) ==
    OccupiedCells(player.board)
        \o SelectSeq(BenchOrder, LAMBDA loc : IsUnit(UnitAt(player, loc)))

_grant_champion(player, P, champion_name) ==
    IF champion_name \notin ChampionIds
    THEN [granted |-> FALSE, player |-> player, P |-> P]
    ELSE IF ~is_available(P, champion_name)
    THEN [granted |-> FALSE, player |-> player, P |-> P]
    ELSE [granted |-> TRUE,
          player |-> _add_to_bench(player,
                                   create_champion_with_stats(champion_name)).player,
          P |-> acquire(P, champion_name).P]

(* _epoch_apply for a player whose configuration has max_level max_level *)
_epoch_apply_under(player, P, effects, max_level) ==
    LET xp_amount == EffectGet(effects, "XPAmount", 4)
        reroll_count == EffectGet(effects, "RerollCount", 3)
        levelled == _check_level_up_under([player EXCEPT !.xp = @ + xp_amount], max_level)
    IN  HookOut([levelled EXCEPT !.free_rerolls = @ + reroll_count], P,
                AugmentResult(TRUE, << >>, << >>, xp_amount, reroll_count))

_epoch_apply(player, P, effects) == _epoch_apply_under(player, P, effects, MaxLevel)

(* Artillery Barrage *)

_find_rumbles(player) ==
    SelectSeq(_get_all_champions(player), LAMBDA loc : UnitAt(player, loc).id = "Rumble")

(* max(pool, key=(stars, current_hp)): the first unit of the list that no  *)
(* other unit beats; current_hp is max_hp here.                            *)
StrongestOf(player, locs) ==
    LET key(i) == <<UnitAt(player, locs[i]).stars, max_hp(UnitAt(player, locs[i]))>>
        less(a, b) == a[1] < b[1] \/ (a[1] = b[1] /\ a[2] < b[2])
        best == CHOOSE i \in 1..Len(locs) :
                    /\ \A j \in 1..Len(locs) : ~less(key(i), key(j))
                    /\ \A j \in 1..(i - 1) : less(key(j), key(i))
    IN  locs[best]

_strongest_rumble(player) ==
    LET board_rumbles == SelectSeq(OccupiedCells(player.board),
                                   LAMBDA loc : UnitAt(player, loc).id = "Rumble")
        bench_rumbles == SelectSeq(BenchOrder,
                                   LAMBDA loc : UnitAt(player, loc).id = "Rumble")
    IN  IF board_rumbles # << >> THEN StrongestOf(player, board_rumbles)
        ELSE IF bench_rumbles # << >> THEN StrongestOf(player, bench_rumbles)
        ELSE NoPos

artillery_barrage_on_select(player, P, effects) ==
    LET g == _grant_champion(player, P, "Rumble")
    IN  IF g.granted
        THEN HookOut(g.player, g.P, AugmentResult(TRUE, <<"Rumble">>, << >>, 0, 0))
        ELSE HookOut(g.player, g.P, AugmentResult(FALSE, << >>, << >>, 0, 0))

BoostRumble(player, bonus_range) ==
    LET target == _strongest_rumble(player)
    IN  IF target = NoPos
        THEN HookOut(player, << >>, AugmentResult(FALSE, << >>, << >>, 0, 0))
        ELSE HookOut(SetUnitAt(player, target,
                               [UnitAt(player, target) EXCEPT
                                    !.attack_range = @ + bonus_range,
                                    !.fires_missiles = TRUE]),
                     << >>,
                     AugmentResult(TRUE, << >>, <<UnitAt(player, target).id>>, 0, 0))

(* the passive hook without its reset loop over the player's Rumbles *)
artillery_barrage_passive_without_reset(player, P, effects) ==
    LET out == BoostRumble(player, EffectGet(effects, "MaxRange", 0))
    IN  HookOut(out.player, P, out.result)

artillery_barrage_passive(player, P, effects) ==
    LET base(u) == IF u.id = "Rumble"
                   THEN [u EXCEPT !.attack_range = stats_attack_range(u.id),
                                  !.fires_missiles = FALSE]
                   ELSE u
        reset == [player EXCEPT
                      !.board = [cell \in Cells |-> base(player.board[cell])],
                      !.bench = [i \in 1..BenchSize |-> base(player.bench[i])]]
        out == BoostRumble(reset, EffectGet(effects, "MaxRange", 0))
    IN  HookOut(out.player, P, out.result)

(* Exiles II *)

get_hex_neighbors(row, col) ==
    LET candidates ==
            IF row % 2 = 0
            THEN <<<<row, col - 1>>, <<row, col + 1>>,
                   <<row - 1, col - 1>>, <<row - 1, col>>,
                   <<row + 1, col - 1>>, <<row + 1, col>>>>
            ELSE <<<<row, col - 1>>, <<row, col + 1>>,
                   <<row - 1, col>>, <<row - 1, col + 1>>,
                   <<row + 1, col>>, <<row + 1, col + 1>>>>
    IN  SelectSeq(candidates, LAMBDA pos : is_valid_position(pos[1], pos[2]))

SeqToSet(s) == {s[i] : i \in 1..Len(s)}

exiles_ii_passive(player, P, effects) ==
    LET shield_pct == EffectGet(effects, "ShieldPercent", ShieldPercent)
        board_cells == OccupiedCells(player.board)
        occupied == {player.board[cell].position : cell \in SeqToSet(board_cells)}
                        \ {NoPos}
        isolated(champ) ==
            /\ champ.position # NoPos
            /\ SeqToSet(get_hex_neighbors(champ.position[1], champ.position[2]))
                   \cap occupied = {}
        shield_of(champ) ==
            IF isolated(champ) THEN (max_hp(champ) * shield_pct) \div 100 ELSE 0
        shielded == SelectSeq(board_cells, LAMBDA cell : isolated(player.board[cell]))
    IN  HookOut([player EXCEPT
                     !.board = [cell \in Cells |->
                                   IF IsUnit(player.board[cell])
                                   THEN [player.board[cell] EXCEPT
                                             !.shield = shield_of(player.board[cell])]
                                   ELSE player.board[cell]]],
                P,
                AugmentResult(TRUE, << >>,
                              [i \in 1..Len(shielded) |-> player.board[shielded[i]].id],
                              0, 0))

(* Epoch and Epoch+ *)

epoch_on_select(player, P, effects) == _epoch_apply(player, P, effects)

epoch_on_stage_start(player, P, effects) == _epoch_apply(player, P, effects)

(* Registry *)

(* The hooks a registered augment has: AUGMENT_REGISTRY[augment_id].keys() *)
AUGMENT_REGISTRY ==
    [a \in {RumbleCarry, Exiles2, Epoch, EpochPlus} |->
        CASE a = RumbleCarry -> {"on_select", "passive"}
          [] a = Exiles2 -> {"passive"}
          [] OTHER -> {"on_select", "on_stage_start"}]

(* AUGMENT_REGISTRY[augment_id][event](player, effects) *)
RunHook(augment_id, event, player, P, effects) ==
    CASE augment_id = RumbleCarry /\ event = "on_select" ->
             artillery_barrage_on_select(player, P, effects)
      [] augment_id = RumbleCarry /\ event = "passive" ->
             artillery_barrage_passive(player, P, effects)
      [] augment_id = Exiles2 /\ event = "passive" ->
             exiles_ii_passive(player, P, effects)
      [] augment_id \in {Epoch, EpochPlus} /\ event = "on_select" ->
             epoch_on_select(player, P, effects)
      [] augment_id \in {Epoch, EpochPlus} /\ event = "on_stage_start" ->
             epoch_on_stage_start(player, P, effects)

(* apply_augment_hook reporting a hook it does not find as a failure *)
apply_augment_hook_missing_fails(player, P, augment, event) ==
    IF augment.augment_id \notin DOMAIN AUGMENT_REGISTRY
    THEN HookOut(player, P, AugmentResult(FALSE, << >>, << >>, 0, 0))
    ELSE IF event \notin AUGMENT_REGISTRY[augment.augment_id]
    THEN HookOut(player, P, AugmentResult(FALSE, << >>, << >>, 0, 0))
    ELSE RunHook(augment.augment_id, event, player, P, augment.effects)

apply_augment_hook(player, P, augment, event) ==
    IF augment.augment_id \notin DOMAIN AUGMENT_REGISTRY
    THEN HookOut(player, P, NeutralResult)
    ELSE IF event \notin AUGMENT_REGISTRY[augment.augment_id]
    THEN HookOut(player, P, NeutralResult)
    ELSE RunHook(augment.augment_id, event, player, P, augment.effects)

RECURSIVE ApplyHooks(_, _, _, _)
ApplyHooks(player, P, augments, event) ==
    IF augments = << >> THEN [player |-> player, P |-> P]
    ELSE LET out == apply_augment_hook(player, P, Head(augments), event)
         IN  ApplyHooks(out.player, out.P, Tail(augments), event)

apply_all_passives(player, P) ==
    ApplyHooks(player, P, player.selected_augments, "passive")

apply_all_stage_start_hooks(player, P) ==
    ApplyHooks(player, P, player.selected_augments, "on_stage_start")

select_augment(player, P, augment) ==
    apply_augment_hook([player EXCEPT !.selected_augments = Append(@, augment)], P,
                       augment, "on_select")

---------------------------------------------------------------------------
(* TFTEventEngine: handlers and apply_action.  Times are in tenths.        *)

(* The objects a handler reads and writes *)
EngineState ==
    [players |-> players, P |-> ThePool, game_round |-> game_round, engine |-> engine,
     event_queue |-> event_queue, current_time |-> current_time,
     scheduled |-> counters.scheduled, config |-> config]

(* The keys of an event's data that a handler reads *)
EventData(phase, round_type) == [phase |-> phase, round_type |-> round_type]

NoData == EventData(None, None)

(* self.schedule_event(self.current_time + delay, event_type, player_id, data) *)
Schedule(S, delay, event_type, player_id, data) ==
    [S EXCEPT !.event_queue = schedule_event(@, S.current_time + delay, event_type,
                                             player_id, data, None, S.scheduled + 1),
              !.scheduled = @ + 1]

Result(kind) == [NoResult EXCEPT !.kind = kind]

Returned(S, result) == [S |-> S, result |-> result, raised |-> FALSE, valid |-> TRUE]

Raised(S, exception) == [S |-> S, result |-> Result(exception), raised |-> TRUE, valid |-> TRUE]

RECURSIVE StageStartHooks(_, _, _)
(* for player in self.players: if player.is_alive:                         *)
(*     apply_all_stage_start_hooks(player), from player i on               *)
StageStartHooks(i, pls, P) ==
    IF i \notin DOMAIN pls THEN [players |-> pls, P |-> P]
    ELSE IF ~pls[i].is_alive THEN StageStartHooks(i + 1, pls, P)
    ELSE LET out == apply_all_stage_start_hooks(pls[i], P)
         IN  StageStartHooks(i + 1, [pls EXCEPT ![i] = out.player], out.P)

(* start_planning_phase(...), then the event the handler ends with: GAME_END *)
(* with nobody alive, AUGMENT_SELECTION in an augment round, else the      *)
(* first living player's PLAYER_ACTION_REQUIRED                            *)
_schedule_after_planning(S1, current_round, round_type, shops, picks) ==
    CHOOSE r \in
      { LET S2 == [S1 EXCEPT !.players = out.players, !.P = out.P]
            alive_players == AliveSeq(out.players)
        IN  [Returned(IF alive_players = << >>
                      THEN Schedule(S2, 1, "GAME_END", -1, NoData)
                      ELSE IF current_round \in AUGMENT_ROUNDS /\ S1.config.enable_augments
                      THEN Schedule(S2, 1, "AUGMENT_SELECTION", -1,
                                    EventData(None, round_type))
                      ELSE Schedule(S2, 1, "PLAYER_ACTION_REQUIRED", alive_players[1],
                                    EventData("planning", round_type)),
                      Result("start_planning"))
                EXCEPT !.valid = out.valid]
        : out \in { start_planning_phase(S1.players, S1.P, S1.game_round, S1.config,
                                         shops, picks) } } : TRUE

(* _handle_start_planning firing the hooks at every START_PLANNING *)
_handle_start_planning_hooks_every_round(S, event, shops, picks) ==
    LET current_round == S.engine.current_round + 1
        new_stage == _compute_stage(current_round)
        round_type == get_round_type(current_round)
    IN  CHOOSE r \in
          { LET S1 == [S EXCEPT !.engine.current_round = current_round,
                                !.engine.current_stage = new_stage,
                                !.game_round.current_round = current_round,
                                !.game_round.current_stage = new_stage,
                                !.players = hooked.players,
                                !.P = hooked.P]
            IN  IF round_type = "carousel" /\ S.config.enable_carousel
                THEN Returned(Schedule(S1, 1, "CAROUSEL", -1, NoData),
                              Result("start_planning"))
                ELSE _schedule_after_planning(S1, current_round, round_type, shops, picks)
            : hooked \in { StageStartHooks(0, S.players, S.P) } } : TRUE

_handle_start_planning(S, event, shops, picks) ==
    LET current_round == S.engine.current_round + 1
        new_stage == _compute_stage(current_round)
        is_new_stage == new_stage # S.engine.current_stage
        round_type == get_round_type(current_round)
    IN  CHOOSE r \in
          { LET S1 == [S EXCEPT !.engine.current_round = current_round,
                                !.engine.current_stage = new_stage,
                                !.game_round.current_round = current_round,
                                !.game_round.current_stage = new_stage,
                                !.players = hooked.players,
                                !.P = hooked.P]
            IN  IF round_type = "carousel" /\ S.config.enable_carousel
                THEN Returned(Schedule(S1, 1, "CAROUSEL", -1, NoData),
                              Result("start_planning"))
                ELSE _schedule_after_planning(S1, current_round, round_type, shops, picks)
            : hooked \in { IF is_new_stage THEN StageStartHooks(0, S.players, S.P)
                             ELSE [players |-> S.players, P |-> S.P] } } : TRUE

(* _handle_player_action that queues END_PLANNING when it hands the        *)
(* decision point out                                                      *)
_handle_player_action_queues_end_planning(S, event) ==
    Returned(Schedule(S, 1, "END_PLANNING", -1, NoData),
             [Result("PLAYER_ACTION_REQUIRED") EXCEPT !.requires_decision = TRUE,
                                                      !.player_id = event.player_id])

_handle_player_action(S, event) ==
    Returned(S, [Result("PLAYER_ACTION_REQUIRED") EXCEPT !.requires_decision = TRUE,
                                                         !.player_id = event.player_id])

_handle_end_planning(S, event) ==
    Returned(Schedule([S EXCEPT !.players = end_planning_phase(@)],
                      1, "START_COMBAT", -1, NoData),
             Result("end_planning"))

_handle_start_combat(S, event, order, winner_draw) ==
    LET c == run_combat_phase(S.players, S.game_round, order, winner_draw)
        S1 == [S EXCEPT !.players = c.players, !.game_round = c.game_round]
    IN  IF c.raised THEN Raised(S1, "AttributeError")
        ELSE Returned(Schedule(S1, 10, "END_COMBAT", -1, NoData), Result("start_combat"))

_handle_end_combat(S, event) ==
    Returned(Schedule(S, 1, "END_ROUND", -1, NoData), Result("end_combat"))

_handle_end_round(S, event) ==
    Returned(IF is_game_over(S.players, S.game_round, S.config)
             THEN Schedule(S, 1, "GAME_END", -1, NoData)
             ELSE Schedule(S, 1, "START_PLANNING", -1, NoData),
             Result("end_round"))

_handle_carousel(S, event, order, winner_draw) ==
    LET gr == [S.game_round EXCEPT !.current_round = S.engine.current_round]
        c == run_combat_phase(S.players, gr, order, winner_draw)
        S1 == [S EXCEPT !.players = c.players, !.game_round = c.game_round]
    IN  IF c.raised THEN Raised(S1, "AttributeError")
        ELSE Returned(Schedule(S1, 1, "END_ROUND", -1, NoData), Result("carousel"))

_handle_game_end(S, event) ==
    Returned([S EXCEPT !.engine.game_over_flag = TRUE],
             [Result("GAME_END") EXCEPT !.game_over = TRUE])

(* An action dictionary with the defaults action.get falls back to *)
Act(action_type) ==
    [action_type |-> action_type, shop_index |-> 0, position |-> <<0, 0>>,
     from_pos |-> <<0, 0>>, to_pos |-> <<0, 0>>]

(* The tail of apply_action, which always schedules one event: the next    *)
(* living player's decision point when the player is not the last living   *)
(* one, END_PLANNING when it is.  This variant ends the phase at once.     *)
schedule_end_planning_at_once(S, player_id) ==
    Schedule(S, 1, "END_PLANNING", -1, NoData)

(* The tail of apply_action for a living player: alive_players.index and   *)
(* the event it schedules                                                  *)
schedule_next_or_end(S, player_id) ==
    LET alive_players == AliveSeq(S.players)
        current_index == SetMin({k \in DOMAIN alive_players : alive_players[k] = player_id})
    IN  IF current_index < Len(alive_players)
        THEN Schedule(S, 1, "PLAYER_ACTION_REQUIRED", alive_players[current_index + 1],
                      EventData("planning", None))
        ELSE Schedule(S, 1, "END_PLANNING", -1, NoData)

(* apply_action; new_shop is the shop sample_shop draws when the action    *)
(* refreshes.  The result's kind is the action type and its reason the     *)
(* value of result['success'].                                             *)
apply_action(S, player_id, action, new_shop) ==
    LET player == S.players[player_id]
        action_type == action.action_type
        same == [ok |-> FALSE, player |-> player, P |-> S.P]
        r == IF action_type = "buy_xp"
             THEN [ok |-> buy_xp(player).ok, player |-> buy_xp(player).player, P |-> S.P]
             ELSE IF action_type = "refresh_shop"
             THEN [ok |-> refresh_shop(player, new_shop).ok,
                   player |-> refresh_shop(player, new_shop).player, P |-> S.P]
             ELSE IF action_type = "buy_champion"
             THEN LET b == buy_champion_from_shop(player, S.P, action.shop_index)
                  IN  [ok |-> b.ok, player |-> b.player, P |-> b.P]
             ELSE IF action_type = "sell_champion"
             THEN sell_champion(player, S.P, action.position)
             ELSE IF action_type = "move_champion"
             THEN [ok |-> move_champion(player, action.from_pos, action.to_pos).ok,
                   player |-> move_champion(player, action.from_pos, action.to_pos).player,
                   P |-> S.P]
             ELSE IF action_type = "pass" THEN [same EXCEPT !.ok = TRUE]
             ELSE same
        S1 == [S EXCEPT !.players[player_id] = r.player, !.P = r.P]
        result == [Result(action_type) EXCEPT !.player_id = player_id,
                                              !.reason = IF r.ok THEN "success" ELSE "failure"]
    IN  IF ~S1.players[player_id].is_alive THEN Raised(S1, "ValueError")
        ELSE Returned(schedule_next_or_end(S1, player_id), result)

---------------------------------------------------------------------------
(* Spec: a match.  An agent resets the engine and then follows the         *)
(* protocol: run_until_decision_point, and apply_action for the player of  *)
(* each decision point it is handed.                                       *)

(* The state reset() leaves; ChampionPool is built with its default sizes *)
Init ==
    /\ config = [gold_per_round |-> DefaultGoldPerRound, starting_health |-> 100,
                 max_game_rounds |-> 48, enable_carousel |-> FALSE,
                 enable_augments |-> FALSE]
    /\ pool_size_config = default_pool_size_config
    /\ pool = _initialize_pool(default_pool_size_config).pool
    /\ tier_totals = _initialize_pool(default_pool_size_config).tier_totals
    /\ players = [p \in InitialPlayers |-> NewPlayer(config)]
    /\ game_round = NewGameRound
    /\ event_queue = schedule_event(<< >>, 0, "START_PLANNING", -1, NoData, None, 1)
    /\ current_time = 0
    /\ engine = [current_round |-> 0, current_stage |-> 1, game_over_flag |-> FALSE]
    /\ pc = "caller"
    /\ ret = NoResult
    /\ history = << >>
    /\ last_call = CallRec("reset", -1, TRUE)
    /\ counters = [scheduled |-> 1, processed_at_entry |-> 0, whole_log |-> TRUE]

(* The state a handler or apply_action leaves behind *)
Install(S) ==
    /\ players' = S.players
    /\ pool' = S.P.pool
    /\ tier_totals' = S.P.tier_totals
    /\ game_round' = S.game_round
    /\ engine' = S.engine
    /\ event_queue' = S.event_queue
    /\ current_time' = S.current_time
    /\ counters' = [counters EXCEPT !.scheduled = S.scheduled]

(* The actions an agent answers a decision point with *)
Actions ==
    {Act("buy_xp"), Act("refresh_shop"), Act("pass"), Act("dance")}
    \cup {[Act("buy_champion") EXCEPT !.shop_index = i] : i \in ShopIndexes}
    \cup {[Act("sell_champion") EXCEPT !.position = pos] : pos \in {<<-1, 0>>, <<0, 0>>}}
    \cup {[Act("move_champion") EXCEPT !.from_pos = <<-1, 0>>],
          [Act("move_champion") EXCEPT !.to_pos = <<-1, 0>>]}

(* The call log with one more entry.  A specification that runs a match   *)
(* over several rounds keeps the last entry only (counters.whole_log is    *)
(* FALSE there).                                                           *)
Logged(entry) == IF counters.whole_log THEN Append(history, entry) ELSE <<entry>>

AgentRunUntilDecisionPoint ==
    /\ pc \in {"caller", "raised"}
    /\ pc' = "loop"
    /\ counters' = [counters EXCEPT
            !.processed_at_entry = Len(SelectSeq(history, LAMBDA h : h.op = "process"))]
    /\ last_call' = CallRec("run_until_decision_point", -1, TRUE)
    /\ UNCHANGED <<config, pool_size_config, pool, tier_totals, players, game_round,
                   engine, event_queue, current_time, ret, history>>

(* What process_next_event and the loop around it do with a handler's outcome *)
AfterHandler(event, out) ==
    /\ out.valid
    /\ Install(out.S)
    /\ ret' = out.result
    /\ history' = Logged([op |-> "process", event |-> event,
                           handler |-> HandlerFor(event), result |-> out.result])
    /\ pc' = IF out.raised THEN "raised"
             ELSE IF out.result.requires_decision THEN "decision"
             ELSE IF ShouldReturn(out.result) THEN "caller"
             ELSE "loop"
    /\ last_call' = CallRec("process_next_event", event.player_id, ~out.raised)

(* One pass of the while loop of run_until_decision_point, or its exit *)
MatchLoopStep ==
    /\ pc = "loop"
    /\ UNCHANGED <<config, pool_size_config>>
    /\ IF event_queue = << >>
       THEN /\ ret' = NoMoreEvents
            /\ pc' = "caller"
            /\ last_call' = CallRec("run_until_decision_point", -1, TRUE)
            /\ UNCHANGED <<pool, tier_totals, players, game_round, engine, event_queue,
                           current_time, history, counters>>
       ELSE LET popped == heappop(event_queue)
                event == popped.item
                S == [EngineState EXCEPT !.event_queue = popped.heap,
                                         !.current_time = event.timestamp]
                kind == HandlerFor(event)
            IN  IF kind = "START_PLANNING"
                THEN \E shops \in ShopDraws(players, ThePool),
                           picks \in GrantPicksIn(engine.current_round + 1) :
                        \E out \in {_handle_start_planning(S, event, shops, picks)} :
                            AfterHandler(event, out)
                ELSE IF kind \in {"START_COMBAT", "CAROUSEL"}
                THEN \E order \in Shuffles(players), winner_draw \in {0, 1} :
                        \E out \in {IF kind = "START_COMBAT"
                                    THEN _handle_start_combat(S, event, order, winner_draw)
                                    ELSE _handle_carousel(S, event, order, winner_draw)} :
                            AfterHandler(event, out)
                ELSE \E out \in {CASE kind = "PLAYER_ACTION_REQUIRED" ->
                                        _handle_player_action(S, event)
                                   [] kind = "END_PLANNING" -> _handle_end_planning(S, event)
                                   [] kind = "END_COMBAT" -> _handle_end_combat(S, event)
                                   [] kind = "END_ROUND" -> _handle_end_round(S, event)
                                   [] kind = "GAME_END" -> _handle_game_end(S, event)
                                   [] OTHER -> [Returned(S, NoResult) EXCEPT
                                                   !.valid = kind # "AUGMENT_SELECTION"]} :
                        AfterHandler(event, out)

(* The agent answers the decision point it was handed with one of actions *)
AnswerWith(actions) ==
    /\ pc = "decision"
    /\ \E action \in actions, new_shop \in sample_shop(ThePool, players[ret.player_id].level) :
        \E out \in {apply_action(EngineState, ret.player_id, action, new_shop)} :
            /\ out.valid
            /\ Install(out.S)
            /\ pc' = IF out.raised THEN "raised" ELSE "caller"
            /\ history' = Logged(
                    [op |-> "apply_action",
                     event |-> IF out.raised THEN Event(current_time, None, -1, NoData, None, 0)
                               ELSE CHOOSE e \in SeqRange(out.S.event_queue) :
                                        e.seq = out.S.scheduled,
                     handler |-> None, result |-> out.result])
            /\ last_call' = CallRec("apply_action", ret.player_id, out.result.reason = "success")
            /\ ret' = out.result
            /\ UNCHANGED <<config, pool_size_config>>

AgentApplyAction == AnswerWith(Actions)

Next ==
    \/ AgentRunUntilDecisionPoint
    \/ MatchLoopStep
    \/ AgentApplyAction

Spec == Init /\ [][Next]_vars

---------------------------------------------------------------------------
(* The order of a round's events and the turn protocol, read off history *)

KindOf(h) == h.event.event_type

(* The kinds that may be processed right after an event of the given kind *)
FollowersOf(kind) ==
    CASE kind = "START_PLANNING" ->
            {"PLAYER_ACTION_REQUIRED"}
            \cup (IF config.enable_augments THEN {"AUGMENT_SELECTION"} ELSE {})
            \cup (IF config.enable_carousel THEN {"CAROUSEL"} ELSE {})
      [] kind = "AUGMENT_SELECTION" -> {"PLAYER_ACTION_REQUIRED"}
      [] kind = "PLAYER_ACTION_REQUIRED" -> {"PLAYER_ACTION_REQUIRED", "END_PLANNING"}
      [] kind = "END_PLANNING" -> {"START_COMBAT"}
      [] kind = "START_COMBAT" -> {"END_COMBAT"}
      [] kind = "END_COMBAT" -> {"END_ROUND"}
      [] kind = "CAROUSEL" -> {"END_ROUND"}
      [] kind = "END_ROUND" -> {"START_PLANNING", "GAME_END"}
      [] OTHER -> {}

(* The part of history that belongs to the planning phase begun last *)
PhaseStart ==
    LET starts == {i \in DOMAIN history :
                      history[i].op = "process" /\ KindOf(history[i]) = "START_PLANNING"}
    IN  IF starts = {} THEN 0 ELSE CHOOSE i \in starts : \A j \in starts : j <= i

Phase == SubSeq(history, PhaseStart + 1, Len(history))

PlayersOf(entries) == [i \in DOMAIN entries |-> entries[i].result.player_id]

(* The players handed a decision point this phase, in the order handed *)
Decisions ==
    PlayersOf(SelectSeq(Phase, LAMBDA h : h.op = "process"
                                          /\ KindOf(h) = "PLAYER_ACTION_REQUIRED"))

(* The players apply_action was called for this phase, in call order *)
Acted == PlayersOf(SelectSeq(Phase, LAMBDA h : h.op = "apply_action"))

EndPlanningScheduled ==
    \E i \in DOMAIN Phase : Phase[i].op = "apply_action" /\ KindOf(Phase[i]) = "END_PLANNING"

IsPrefix(a, b) == Len(a) <= Len(b) /\ a = SubSeq(b, 1, Len(a))

(* C6: in every round the event kinds are processed in the order           *)
(* StartPlanning, one PlayerActionRequired per living player, EndPlanning, *)
(* StartCombat, EndCombat, EndRound, then StartPlanning of the next round  *)
(* or GameEnd (Carousel and AugmentSelection when enabled): the first      *)
(* event is StartPlanning, each processed event is of a kind that may      *)
(* follow the one before it, and unless the game has ended or the agent    *)
(* owes an answer to a decision point, the event that continues the round  *)
(* is queued.                                                              *)
C6_RoundOrder ==
    /\ Processed # << >> => KindOf(Processed[1]) = "START_PLANNING"
    /\ \A i \in 1..(Len(Processed) - 1) :
            KindOf(Processed[i + 1]) \in FollowersOf(KindOf(Processed[i]))
    /\ (/\ Processed # << >>
        /\ pc # "decision"
        /\ KindOf(Processed[Len(Processed)]) # "GAME_END")
            => /\ event_queue # << >>
               /\ event_queue[1].event_type
                      \in FollowersOf(KindOf(Processed[Len(Processed)]))

(* C7: when the agent answers each decision point with apply_action for    *)
(* the requested player, each living player is handed exactly one decision *)
(* point per planning phase, in ascending player order, each answered      *)
(* before the next is handed out; every apply_action call, whatever the    *)
(* action and whether or not it succeeded, schedules exactly one event,    *)
(* the next living player's decision point or, after the last living       *)
(* player has acted, END_PLANNING; END_PLANNING is scheduled only by the   *)
(* last living player's call.                                              *)
C7_TurnProtocol ==
    /\ IsPrefix(Decisions, AliveSeq(players))
    /\ IsPrefix(Acted, Decisions) /\ Len(Decisions) <= Len(Acted) + 1
    /\ EndPlanningScheduled <=> (PhaseStart > 0 /\ Acted = AliveSeq(players))
    /\ \A i \in DOMAIN event_queue :
            event_queue[i].event_type = "END_PLANNING" => EndPlanningScheduled
    /\ \A i \in DOMAIN Phase :
            (Phase[i].op = "process" /\ KindOf(Phase[i]) = "END_PLANNING")
                => Decisions = AliveSeq(players)
    /\ last_call.op = "apply_action"
            => /\ Len(event_queue) = 1
               /\ IF Acted = AliveSeq(players)
                  THEN event_queue[1].event_type = "END_PLANNING"
                  ELSE /\ event_queue[1].event_type = "PLAYER_ACTION_REQUIRED"
                       /\ event_queue[1].player_id = AliveSeq(players)[Len(Acted) + 1]

(* C7 witness: END_PLANNING has been processed after player 0 answered     *)
(* with an action that failed and player 1 with an unknown action type     *)
C7_Witness ==
    /\ \E i \in DOMAIN Phase : Phase[i].op = "process" /\ KindOf(Phase[i]) = "END_PLANNING"
    /\ Decisions = <<0, 1>> /\ Acted = <<0, 1>>
    /\ \E i, j \in DOMAIN Phase :
        /\ i < j
        /\ Phase[i].op = "apply_action" /\ Phase[i].result.kind = "sell_champion"
        /\ Phase[i].result.reason = "failure"
        /\ Phase[j].op = "apply_action" /\ Phase[j].result.kind = "dance"

---------------------------------------------------------------------------
(* What a round does for its living players before and at its combat *)

(* The per-player methods a handler runs for every living player, through  *)
(* start_planning_phase, end_planning_phase and run_combat_phase.  No      *)
(* handler and no GameRound method calls apply_all_passives.               *)
SideEffectsOf(handler) ==
    CASE handler = "START_PLANNING" -> {"_generate_shop", "start_of_round_gold"}
      [] handler = "END_PLANNING" -> {"update_active_traits", "reset_for_combat"}
      [] handler = "AUGMENT_SELECTION" -> {"select_augment"}
      [] OTHER -> {}

(* The index in Processed of the START_PLANNING that opened the round of   *)
(* the i-th processed event                                                *)
RoundStartOf(i) ==
    LET starts == {j \in 1..i : KindOf(Processed[j]) = "START_PLANNING"}
    IN  IF starts = {} THEN 1 ELSE CHOOSE j \in starts : \A k \in starts : k <= j

(* What has been done for the living players in the round of the i-th      *)
(* processed event before that event                                       *)
DoneBefore(i) ==
    UNION {SideEffectsOf(Processed[j].handler) : j \in RoundStartOf(i)..(i - 1)}

(* C11: in every round with a combat phase each living player's round      *)
(* income, active-trait recomputation and augment passive application have *)
(* all been performed in that round before the round's combat is resolved: *)
(* when START_COMBAT is processed, start_of_round_gold,                    *)
(* update_active_traits and apply_all_passives have run since the round's  *)
(* START_PLANNING.                                                         *)
C11_SideEffectsPrecedeCombat ==
    \A i \in DOMAIN Processed :
        KindOf(Processed[i]) = "START_COMBAT"
            => {"start_of_round_gold", "update_active_traits", "apply_all_passives"}
                   \subseteq DoneBefore(i)

(* C12: when the agent answers every decision point, every match           *)
(* eventually processes GAME_END.  A match that is to reach GAME_END must  *)
(* not run out of events before: whenever the engine is back with its      *)
(* caller, no decision point is open and nothing is queued, GAME_END has   *)
(* been processed (game_over_flag is set).                                 *)
C12_Termination ==
    (pc \in {"caller", "raised"} /\ event_queue = << >>) => engine.game_over_flag

---------------------------------------------------------------------------
(* SpecResume: a match of one player more than Spec, with little health    *)
(* and a low round limit, driven by a caller that does not give up when    *)
(* START_COMBAT raises: it catches the exception, schedules the END_COMBAT *)
(* event the handler did not get to schedule, and goes on with             *)
(* run_until_decision_point.  All engine code runs as in Spec.             *)

InitResume ==
    /\ \E starting_health \in {StartHealth, StartHealth + 1} :
        config = [gold_per_round |-> DefaultGoldPerRound,
                  starting_health |-> starting_health,
                  max_game_rounds |-> MaxRounds, enable_carousel |-> FALSE,
                  enable_augments |-> FALSE]
    /\ pool_size_config = default_pool_size_config
    /\ pool = _initialize_pool(default_pool_size_config).pool
    /\ tier_totals = _initialize_pool(default_pool_size_config).tier_totals
    /\ players = [p \in 0..NumPlayers |-> NewPlayer(config)]
    /\ game_round = NewGameRound
    /\ event_queue = schedule_event(<< >>, 0, "START_PLANNING", -1, NoData, None, 1)
    /\ current_time = 0
    /\ engine = [current_round |-> 0, current_stage |-> 1, game_over_flag |-> FALSE]
    /\ pc = "caller"
    /\ ret = NoResult
    /\ history = << >>
    /\ last_call = CallRec("reset", -1, TRUE)
    /\ counters = [scheduled |-> 1, processed_at_entry |-> 0, whole_log |-> FALSE]

(* The answers of the players of SpecResume: pass, or put the first bench  *)
(* unit on the board                                                       *)
ResumeActions == {Act("pass"), [Act("move_champion") EXCEPT !.from_pos = <<-1, 0>>]}

ResumeApplyAction == AnswerWith(ResumeActions)

(* engine.schedule_event(engine.current_time + 1.0, EventType.END_COMBAT, -1) *)
(* by the caller, after START_COMBAT has raised                             *)
ResumeScheduleEndCombat ==
    /\ pc = "raised"
    /\ history # << >> /\ history[Len(history)].op = "process"
    /\ KindOf(history[Len(history)]) = "START_COMBAT"
    /\ event_queue' = schedule_event(event_queue, current_time + 10, "END_COMBAT", -1,
                                     NoData, None, counters.scheduled + 1)
    /\ counters' = [counters EXCEPT !.scheduled = @ + 1]
    /\ pc' = "caller"
    /\ last_call' = CallRec("schedule_event", -1, TRUE)
    /\ UNCHANGED <<config, pool_size_config, pool, tier_totals, players, game_round,
                   engine, current_time, ret, history>>

NextResume ==
    \/ AgentRunUntilDecisionPoint
    \/ MatchLoopStep
    \/ ResumeApplyAction
    \/ ResumeScheduleEndCombat

SpecResume == InitResume /\ [][NextResume]_vars

---------------------------------------------------------------------------
(* The end of the match (SpecResume) *)

ScheduledKinds(queue) == {queue[i].event_type : i \in 1..Len(queue)}

(* The next pass of the loop takes an event of this kind from the queue *)
ProcessesNext(kind) ==
    pc = "loop" /\ event_queue # << >> /\ heappop(event_queue).item.event_type = kind

(* At most one player is alive or the round counter exceeds the maximum *)
GameIsOver(pls, eng) ==
    Len(AliveSeq(pls)) <= 1 \/ eng.current_round > config.max_game_rounds

C14_EliminationIsFinal ==
    [][ /\ DOMAIN players' = DOMAIN players
        /\ \A p \in DOMAIN players :
            /\ players'[p].health = 0 => ~players'[p].is_alive
            /\ ~players[p].is_alive
                => /\ players'[p] = players[p]
                   /\ game_round'.recent_opponents[p] = game_round.recent_opponents[p]
                   /\ \A q \in DOMAIN players \ {p} :
                        game_round'.recent_opponents[q]
                            # Append(game_round.recent_opponents[q], p) ]_vars

(* A player was eliminated in an earlier round; the others have had the    *)
(* planning of this round and its START_COMBAT has paired them             *)
C14_Witness ==
    /\ pc = "raised" /\ history # << >> /\ KindOf(history[Len(history)]) = "START_COMBAT"
    /\ \E p \in DOMAIN players :
        /\ players[p].health = 0
        /\ players[p].rounds_survived < engine.current_round
        /\ \E q \in DOMAIN players \ {p} :
            /\ players[q].is_alive
            /\ players[q].rounds_survived = engine.current_round
            /\ Len(game_round.recent_opponents[q]) > Len(game_round.recent_opponents[p])

(* C20: over a match every player's health lies in 0..starting_health and  *)
(* no step raises it, no step turns is_alive from false to true, and       *)
(* is_alive is false exactly when health is 0.                             *)
C20_HealthAndAliveFlag ==
    [][ \A p \in DOMAIN players :
        /\ players[p].health \in 0..config.starting_health
        /\ players[p].is_alive <=> players[p].health > 0
        /\ players'[p].health \in 0..config.starting_health
        /\ players'[p].is_alive <=> players'[p].health > 0
        /\ players'[p].health <= players[p].health
        /\ players'[p].is_alive => players[p].is_alive ]_vars

(* One player has lost part of the health and lives, another has lost all  *)
(* of it                                                                   *)
C20_Witness ==
    \E p, q \in DOMAIN players :
        /\ players[p].is_alive
        /\ 0 < players[p].health /\ players[p].health < config.starting_health
        /\ players[q].health = 0 /\ ~players[q].is_alive

---------------------------------------------------------------------------
(* Selling, the board cap and gold (SpecPlayer) *)

(* C15: every successful sell_champion of a unit with star level s raises  *)
(* the pool's count of the unit's champion by 3^(s-1) and the seller's     *)
(* gold by the champion's base cost.                                       *)
C15_SellAccounting ==
    [][\A p \in Players, loc \in Locs :
        (/\ last_call'.op = "sell_champion" /\ last_call'.ok /\ last_call'.player = p
         /\ IsUnit(UnitAt(players[p], loc)) /\ ~IsUnit(UnitAt(players'[p], loc)))
        => LET sold == UnitAt(players[p], loc)
           IN  /\ pool'[sold.id] = pool[sold.id] + Pow3(sold.stars - 1)
               /\ players'[p].gold = players[p].gold + Cost(sold.id)]_vars

(* C18: a player's board never holds more than max_units_by_level[level]   *)
(* units; move_champion from a bench slot that holds a unit to the board   *)
(* fails, changing nothing, when the board is at the cap or the            *)
(* destination cell is occupied; and with the board at the cap a move from *)
(* an occupied cell to an empty cell succeeds and keeps the count.         *)
C18_BoardUnitCap ==
    \A p \in Players :
        LET player == players[p]
            cap == max_units_by_level(player.level)
            n == count_champions(player.board)
        IN  /\ n <= cap
            /\ \A a \in TestPositions, b \in TestPositions :
                LET r == move_champion(player, a, b)
                    from_bench == a[1] = -1 /\ a[2] < BenchSize /\ IsUnit(UnitAt(player, a))
                    from_board == a \in Cells /\ IsUnit(player.board[a])
                IN  /\ (from_bench /\ b \in Cells /\ (n >= cap \/ IsUnit(player.board[b])))
                        => ~r.ok /\ r.player = player
                    /\ (from_board /\ b \in Cells /\ ~IsUnit(player.board[b]) /\ n = cap)
                        => /\ r.ok
                           /\ count_champions(r.player.board) = n
                           /\ r.player.board[b].id = player.board[a].id
                           /\ ~IsUnit(r.player.board[a])

(* A move has filled the player's board up to the cap while a unit is left *)
(* on the bench                                                            *)
C18_Witness ==
    \E p \in Actors :
        /\ last_call.op = "move_champion" /\ last_call.ok /\ last_call.player = p
        /\ count_champions(players[p].board) = max_units_by_level(players[p].level)
        /\ \E a \in TestPositions : a[1] = -1 /\ a[2] < BenchSize /\ IsUnit(UnitAt(players[p], a))

(* C19: in every reachable state every player's gold is at least 0,        *)
(* whatever buy_xp, refresh_shop, buy_champion_from_shop, sell_champion    *)
(* and the income of the planning phase have done.                         *)
C19_GoldNeverNegative == \A p \in Players : players[p].gold >= 0

(* The player has spent the income down to less than a refresh costs and   *)
(* has just been refused a refresh                                         *)
C19_Witness ==
    \E p \in Actors :
        /\ last_call.op = "refresh_shop" /\ ~last_call.ok /\ last_call.player = p
        /\ players[p].rounds_survived > 0
        /\ players[p].gold < shop_refresh_cost
        /\ players[p].free_rerolls = 0

---------------------------------------------------------------------------
(* Champion objects by identity.  A heap maps every Champion object to its *)
(* fields; a grid cell or a bench slot holds a reference to an object, or  *)
(* NoRef for None.  B is a Board with the objects it can refer to:         *)
(* [grid |-> cell -> reference, champions |-> the heap].                   *)

Refs == 1..MaxUnits

NoRef == 0

(* dataclass Champion: __eq__ compares the fields *)
SameValue(champions, ref1, ref2) ==
    ref1 # NoRef /\ ref2 # NoRef /\ champions[ref1] = champions[ref2]

Board_is_empty(B, row, col) ==
    IF ~is_valid_position(row, col) THEN FALSE ELSE B.grid[<<row, col>>] = NoRef

Board_get(B, row, col) ==
    IF ~is_valid_position(row, col) THEN NoRef ELSE B.grid[<<row, col>>]

(* Board.place without the removal from the old position *)
Board_place_keeping_old_cell(B, champion, row, col) ==
    IF ~is_valid_position(row, col) \/ ~Board_is_empty(B, row, col)
    THEN [ok |-> FALSE, B |-> B]
    ELSE [ok |-> TRUE,
          B |-> [B EXCEPT !.grid[<<row, col>>] = champion,
                          !.champions[champion].position = <<row, col>>]]

Board_place(B, champion, row, col) ==
    IF ~is_valid_position(row, col) \/ ~Board_is_empty(B, row, col)
    THEN [ok |-> FALSE, B |-> B]
    ELSE LET old == B.champions[champion].position
             cleared == IF old # NoPos /\ old \in Cells
                           /\ SameValue(B.champions, B.grid[old], champion)
                        THEN [B EXCEPT !.grid[old] = NoRef]
                        ELSE B
         IN  [ok |-> TRUE,
              B |-> [cleared EXCEPT !.grid[<<row, col>>] = champion,
                                    !.champions[champion].position = <<row, col>>]]

Board_remove(B, row, col) ==
    IF ~is_valid_position(row, col) THEN [champion |-> NoRef, B |-> B]
    ELSE LET champion == B.grid[<<row, col>>]
         IN  IF champion # NoRef
             THEN [champion |-> champion,
                   B |-> [B EXCEPT !.grid[<<row, col>>] = NoRef,
                                   !.champions[champion].position = NoPos]]
             ELSE [champion |-> NoRef, B |-> B]

Board_move(B, from_row, from_col, to_row, to_col) ==
    LET champion == Board_get(B, from_row, from_col)
    IN  IF champion = NoRef THEN [ok |-> FALSE, B |-> B]
        ELSE IF ~is_valid_position(to_row, to_col) THEN [ok |-> FALSE, B |-> B]
        ELSE IF ~Board_is_empty(B, to_row, to_col) THEN [ok |-> FALSE, B |-> B]
        ELSE [ok |-> TRUE,
              B |-> [B EXCEPT !.grid[<<from_row, from_col>>] = NoRef,
                              !.grid[<<to_row, to_col>>] = champion,
                              !.champions[champion].position = <<to_row, to_col>>]]

Board_swap(B, row1, col1, row2, col2) ==
    IF ~is_valid_position(row1, col1) \/ ~is_valid_position(row2, col2)
    THEN [ok |-> FALSE, B |-> B]
    ELSE LET champ1 == B.grid[<<row1, col1>>]
             champ2 == B.grid[<<row2, col2>>]
             grid1 == [B.grid EXCEPT ![<<row1, col1>>] = champ2]
             grid2 == [grid1 EXCEPT ![<<row2, col2>>] = champ1]
             moved1 == IF champ1 # NoRef
                       THEN [B.champions EXCEPT ![champ1].position = <<row2, col2>>]
                       ELSE B.champions
             moved2 == IF champ2 # NoRef
                       THEN [moved1 EXCEPT ![champ2].position = <<row1, col1>>]
                       ELSE moved1
         IN  [ok |-> TRUE, B |-> [grid |-> grid2, champions |-> moved2]]

---------------------------------------------------------------------------
(* SpecBoard: one Board (the variable players holds it) and MaxUnits       *)
(* Champion objects, two of them equal field by field; place, remove, move *)
(* and swap are called with any of the objects and any coordinates of      *)
(* TestCoords, in any order.                                               *)

EmptyGrid == [cell \in Cells |-> NoRef]

NewChampions ==
    [ref \in Refs |-> create_champion(IF ref < MaxUnits THEN "Lulu" ELSE "Vi")]

InitBoard ==
    /\ config = [gold_per_round |-> DefaultGoldPerRound, starting_health |-> 100,
                 max_game_rounds |-> 48, enable_carousel |-> FALSE,
                 enable_augments |-> FALSE]
    /\ pool_size_config = small_pool_size_config
    /\ pool = _initialize_pool(small_pool_size_config).pool
    /\ tier_totals = _initialize_pool(small_pool_size_config).tier_totals
    /\ players = [grid |-> EmptyGrid, champions |-> NewChampions]
    /\ game_round = [current_round |-> 1, current_stage |-> 1, recent_opponents |-> << >>]
    /\ IdleEngine
    /\ last_call = CallRec("init", -1, TRUE)
    /\ counters = [acquired |-> [c \in PoolIds |-> 0], released |-> [c \in PoolIds |-> 0]]

(* Coordinates the calls are made with: five cells, and four outside the grid *)
TestCoords ==
    {<<0, 0>>, <<0, 1>>, <<1, 0>>, <<1, 1>>, <<Rows - 1, Cols - 1>>}
    \cup {<<-1, 0>>, <<0, -1>>, <<Rows, 0>>, <<0, Cols>>}

BoardUnchanged ==
    /\ UNCHANGED <<config, pool_size_config, pool, tier_totals, game_round, counters>>
    /\ EngineUnchanged

CallBoardPlace(champion, pos) ==
    LET r == Board_place(players, champion, pos[1], pos[2])
    IN  /\ players' = r.B
        /\ last_call' = CallRec("place", -1, r.ok)
        /\ BoardUnchanged

CallBoardRemove(pos) ==
    LET r == Board_remove(players, pos[1], pos[2])
    IN  /\ players' = r.B
        /\ last_call' = CallRec("remove", -1, r.champion # NoRef)
        /\ BoardUnchanged

CallBoardMove(from_pos, to_pos) ==
    LET r == Board_move(players, from_pos[1], from_pos[2], to_pos[1], to_pos[2])
    IN  /\ players' = r.B
        /\ last_call' = CallRec("move", -1, r.ok)
        /\ BoardUnchanged

CallBoardSwap(pos1, pos2) ==
    LET r == Board_swap(players, pos1[1], pos1[2], pos2[1], pos2[2])
    IN  /\ players' = r.B
        /\ last_call' = CallRec("swap", -1, r.ok)
        /\ BoardUnchanged

NextBoard ==
    \/ \E champion \in Refs, pos \in TestCoords : CallBoardPlace(champion, pos)
    \/ \E pos \in TestCoords : CallBoardRemove(pos)
    \/ \E from_pos \in TestCoords, to_pos \in TestCoords : CallBoardMove(from_pos, to_pos)
    \/ \E pos1 \in TestCoords, pos2 \in TestCoords : CallBoardSwap(pos1, pos2)

SpecBoard == InitBoard /\ [][NextBoard]_vars

(* The cells of B that refer to the object *)
CellsOf(B, ref) == {cell \in Cells : B.grid[cell] = ref}

(* C16: after any sequence of place, remove, move and swap calls, failing  *)
(* ones and ones with coordinates outside the grid included, every         *)
(* occupied cell's unit reports that cell as its position, no two cells    *)
(* refer to the same unit instance, and a cell holds one unit or none.     *)
C16_BoardInvariant ==
    /\ \A cell \in Cells :
        /\ players.grid[cell] \in Refs \cup {NoRef}
        /\ players.grid[cell] # NoRef => players.champions[players.grid[cell]].position = cell
    /\ \A ref \in Refs : Cardinality(CellsOf(players, ref)) <= 1
    /\ DOMAIN players.grid = Cells

(* Two units are on the board, one of them in the last cell of the grid,   *)
(* and the call just made was a swap of two cells of the grid              *)
C16_Witness ==
    /\ last_call.op = "swap" /\ last_call.ok
    /\ Cardinality({ref \in Refs : CellsOf(players, ref) # {}}) = 2
    /\ \E ref \in Refs : CellsOf(players, ref) = {<<Rows - 1, Cols - 1>>}

---------------------------------------------------------------------------
(* Player with Champion objects by identity: bench slots and board cells   *)
(* hold references, player.champions is the heap.                          *)

(* As many objects as a player can hold, and one being created *)
UnitRefs == 1..(BenchSize + MaxLevel + 1)

NewUnitsPlayer(cfg) ==
    [gold |-> starting_gold, level |-> starting_level, xp |-> 0, free_rerolls |-> 0,
     board |-> EmptyGrid,
     bench |-> [i \in 1..BenchSize |-> NoRef],
     shop |-> [i \in 1..ShopSize |-> None],
     rounds_survived |-> 0,
     champions |-> [ref \in UnitRefs |-> NoUnit]]

BoardOf(player) == [grid |-> player.board, champions |-> player.champions]

WithBoard(player, B) == [player EXCEPT !.board = B.grid, !.champions = B.champions]

(* The places that refer to the object: bench slots and board cells *)
HoldersOf(player, ref) ==
    {loc \in Locs : (IF loc[1] = -1 THEN player.bench[loc[2] + 1] ELSE player.board[loc]) = ref}

(* create_champion returns a new object: one no bench slot or cell refers to *)
NewRef(player) == SetMin({ref \in UnitRefs : HoldersOf(player, ref) = {}})

Units_create_champion(player, champion_id) ==
    [player EXCEPT !.champions[NewRef(player)] = create_champion(champion_id)]

(* Objects that nothing refers to any more are gone *)
Collected(player) ==
    [player EXCEPT !.champions =
        [ref \in UnitRefs |-> IF HoldersOf(player, ref) = {} THEN NoUnit ELSE @[ref]]]

Units_add_to_bench_no_upgrade(player, champion) ==
    LET free == {i \in 1..BenchSize : player.bench[i] = NoRef}
    IN  IF free = {} THEN [ok |-> FALSE, player |-> player]
        ELSE [ok |-> TRUE, player |-> [player EXCEPT !.bench[SetMin(free)] = champion]]

Units_remove_champion_from_bench_or_board(player, champion) ==
    LET hits == {i \in 1..BenchSize : SameValue(player.champions, player.bench[i], champion)}
        found == SelectSeq(CellOrder,
                    LAMBDA cell : SameValue(player.champions, player.board[cell], champion))
    IN  IF hits # {} THEN [player EXCEPT !.bench[SetMin(hits)] = NoRef]
        ELSE IF found # << >>
        THEN WithBoard(player, Board_remove(BoardOf(player), found[1][1], found[1][2]).B)
        ELSE player

Units_check_for_upgrade(player, new_champion) ==
    LET matches(ref) == /\ ref # NoRef
                        /\ player.champions[ref].id = player.champions[new_champion].id
                        /\ player.champions[ref].stars = player.champions[new_champion].stars
        on_board == [i \in 1..Len(CellOrder) |-> player.board[CellOrder[i]]]
        same == SelectSeq(player.bench, matches) \o SelectSeq(on_board, matches)
    IN  IF Len(same) >= 2
        THEN [upgraded |-> TRUE,
              player |-> Units_remove_champion_from_bench_or_board(
                            [player EXCEPT !.champions[same[1]] = upgrade_star(@)], same[2])]
        ELSE [upgraded |-> FALSE, player |-> player]

Units_add_to_bench(player, champion) ==
    Units_add_to_bench_no_upgrade(Units_check_for_upgrade(player, champion).player, champion)

Units_sell(player, P, champion) ==
    [player |-> [player EXCEPT !.gold = @ + Cost(player.champions[champion].id)],
     P |-> release_n(P, player.champions[champion].id,
                     Pow3(player.champions[champion].stars - 1))]

Units_buy_champion_from_shop(player, P, shop_index) ==
    LET fail == [ok |-> FALSE, player |-> player, P |-> P]
    IN  IF ~(0 <= shop_index /\ shop_index < ShopSize) THEN fail
        ELSE LET champion_id == player.shop[shop_index + 1]
             IN  IF champion_id = None \/ champion_id \notin ChampionIds THEN fail
                 ELSE IF player.gold < Cost(champion_id) THEN fail
                 ELSE IF ~is_available(P, champion_id) THEN fail
                 ELSE LET acq == acquire(P, champion_id)
                          paid == [player EXCEPT !.gold = @ - Cost(champion_id)]
                          new_champion == NewRef(paid)
                          added == Units_add_to_bench(
                                        Units_create_champion(paid, champion_id), new_champion)
                          sold == Units_sell(added.player, acq.P, new_champion)
                          after == IF added.ok THEN added.player ELSE sold.player
                      IN  [ok |-> TRUE,
                           player |-> [after EXCEPT !.shop[shop_index + 1] = None],
                           P |-> IF added.ok THEN acq.P ELSE sold.P]

Units_sell_champion(player, P, position) ==
    LET row == position[1]
        col == position[2]
        fail == [ok |-> FALSE, player |-> player, P |-> P]
    IN  IF row = -1
        THEN IF ~(0 <= col /\ col < BenchSize) THEN fail
             ELSE IF player.bench[col + 1] = NoRef THEN fail
             ELSE LET sold == Units_sell([player EXCEPT !.bench[col + 1] = NoRef], P,
                                         player.bench[col + 1])
                  IN  [ok |-> TRUE, player |-> sold.player, P |-> sold.P]
        ELSE LET rem == Board_remove(BoardOf(player), row, col)
             IN  IF rem.champion = NoRef THEN fail
                 ELSE LET sold == Units_sell(WithBoard(player, rem.B), P, rem.champion)
                      IN  [ok |-> TRUE, player |-> sold.player, P |-> sold.P]

(* move_champion's "Remove from source" left out *)
Units_leave_at_source(player, from_row, from_col) == player

(* "Remove from source" of move_champion *)
Units_remove_from_source(player, from_row, from_col) ==
    IF from_row = -1 THEN [player EXCEPT !.bench[from_col + 1] = NoRef]
    ELSE WithBoard(player, Board_remove(BoardOf(player), from_row, from_col).B)

Units_move_champion(player, from_pos, to_pos) ==
    LET from_row == from_pos[1]
        from_col == from_pos[2]
        to_row == to_pos[1]
        to_col == to_pos[2]
        fail == [ok |-> FALSE, player |-> player]
        src_ok == from_row = -1 => (0 <= from_col /\ from_col < BenchSize)
        champion == IF ~src_ok THEN NoRef
                    ELSE IF from_row = -1 THEN player.bench[from_col + 1]
                    ELSE Board_get(BoardOf(player), from_row, from_col)
        removed == Units_remove_from_source(player, from_row, from_col)
    IN  IF champion = NoRef THEN fail
        ELSE IF to_row = -1
        THEN IF ~(0 <= to_col /\ to_col < BenchSize) THEN fail
             ELSE IF player.bench[to_col + 1] # NoRef THEN fail
             ELSE [ok |-> TRUE,
                   player |-> [removed EXCEPT !.bench[to_col + 1] = champion,
                                              !.champions[champion].position = NoPos]]
        ELSE IF Cardinality({cell \in Cells : player.board[cell] # NoRef})
                    >= max_units_by_level(player.level) /\ from_row = -1
             THEN fail
             ELSE IF ~Board_is_empty(BoardOf(player), to_row, to_col) THEN fail
             ELSE [ok |-> TRUE,
                   player |-> WithBoard(removed,
                                Board_place(BoardOf(removed), champion, to_row, to_col).B)]

(* start_planning_phase of round 1 for the player: shop, income, the count *)
(* of rounds, and the 1-cost champion of _grant_round1_champions           *)
Units_start_planning_phase(player, P, cfg, new_shop, champion_id) ==
    LET setup == [start_of_round_gold(_generate_shop(player, new_shop), cfg)
                     EXCEPT !.rounds_survived = @ + 1]
        acq == acquire(P, champion_id)
    IN  IF acq.ok
        THEN [player |-> Units_add_to_bench(Units_create_champion(setup, champion_id),
                                            NewRef(setup)).player,
              P |-> acq.P]
        ELSE [player |-> setup, P |-> P]

---------------------------------------------------------------------------
(* SpecUnits: one player whose units are objects; after the planning phase *)
(* of round 1 the player buys XP, refreshes, buys, sells and moves in any  *)
(* order.                                                                  *)

InitUnits ==
    /\ config = [gold_per_round |-> DefaultGoldPerRound, starting_health |-> 100,
                 max_game_rounds |-> 48, enable_carousel |-> FALSE,
                 enable_augments |-> FALSE]
    /\ pool_size_config = small_pool_size_config
    /\ pool = _initialize_pool(small_pool_size_config).pool
    /\ tier_totals = _initialize_pool(small_pool_size_config).tier_totals
    /\ players = [p \in {0} |-> NewUnitsPlayer(config)]
    /\ game_round = [current_round |-> 1, current_stage |-> 1,
                     recent_opponents |-> [p \in {0} |-> << >>]]
    /\ IdleEngine
    /\ last_call = CallRec("init", -1, TRUE)
    /\ counters = [acquired |-> [c \in PoolIds |-> 0], released |-> [c \in PoolIds |-> 0]]

CallUnitsStartPlanningPhase ==
    /\ players[0].rounds_survived = 0
    /\ \E new_shop \in sample_shop(ThePool, players[0].level),
          champion_id \in {c \in ChampionIds : Cost(c) = 1 /\ is_available(ThePool, c)} :
        LET out == Units_start_planning_phase(players[0], ThePool, config, new_shop,
                                              champion_id)
        IN  /\ players' = [players EXCEPT ![0] = Collected(out.player)]
            /\ pool' = out.P.pool
            /\ tier_totals' = out.P.tier_totals
            /\ last_call' = CallRec("start_planning_phase", -1, TRUE)
            /\ PlayerUnchanged /\ EngineUnchanged

CallUnitsBuyXp ==
    LET r == buy_xp(players[0])
    IN  /\ players' = [players EXCEPT ![0] = r.player]
        /\ last_call' = CallRec("buy_xp", 0, r.ok)
        /\ UNCHANGED <<pool, tier_totals>>
        /\ PlayerUnchanged /\ EngineUnchanged

CallUnitsRefreshShop ==
    \E new_shop \in sample_shop(ThePool, players[0].level) :
        LET r == refresh_shop(players[0], new_shop)
        IN  /\ players' = [players EXCEPT ![0] = r.player]
            /\ last_call' = CallRec("refresh_shop", 0, r.ok)
            /\ UNCHANGED <<pool, tier_totals>>
            /\ PlayerUnchanged /\ EngineUnchanged

CallUnitsBuyChampion(shop_index) ==
    LET r == Units_buy_champion_from_shop(players[0], ThePool, shop_index)
    IN  /\ players' = [players EXCEPT ![0] = Collected(r.player)]
        /\ pool' = r.P.pool
        /\ tier_totals' = r.P.tier_totals
        /\ last_call' = CallRec("buy_champion_from_shop", 0, r.ok)
        /\ PlayerUnchanged /\ EngineUnchanged

CallUnitsSellChampion(position) ==
    LET r == Units_sell_champion(players[0], ThePool, position)
    IN  /\ players' = [players EXCEPT ![0] = Collected(r.player)]
        /\ pool' = r.P.pool
        /\ tier_totals' = r.P.tier_totals
        /\ last_call' = CallRec("sell_champion", 0, r.ok)
        /\ PlayerUnchanged /\ EngineUnchanged

CallUnitsMoveChampion(from_pos, to_pos) ==
    LET r == Units_move_champion(players[0], from_pos, to_pos)
    IN  /\ players' = [players EXCEPT ![0] = Collected(r.player)]
        /\ last_call' = CallRec("move_champion", 0, r.ok)
        /\ UNCHANGED <<pool, tier_totals>>
        /\ PlayerUnchanged /\ EngineUnchanged

NextUnits ==
    \/ CallUnitsStartPlanningPhase
    \/ CallUnitsBuyXp
    \/ CallUnitsRefreshShop
    \/ \E i \in ShopIndexes : CallUnitsBuyChampion(i)
    \/ \E pos \in TestPositions : CallUnitsSellChampion(pos)
    \/ \E a \in TestPositions, b \in TestPositions : CallUnitsMoveChampion(a, b)

SpecUnits == InitUnits /\ [][NextUnits]_vars

(* C17: after any sequence of the player's buy, sell, move, upgrade and    *)
(* grant operations every unit instance is referred to by at most one      *)
(* place (a bench slot or a board cell, never both, never two), every      *)
(* place refers to a unit that exists, and a unit on the bench has no      *)
(* board position.                                                         *)
C17_SingleOwnership ==
    \A p \in DOMAIN players :
        /\ \A ref \in UnitRefs : Cardinality(HoldersOf(players[p], ref)) <= 1
        /\ \A i \in 1..BenchSize :
            players[p].bench[i] # NoRef
                => /\ IsUnit(players[p].champions[players[p].bench[i]])
                   /\ players[p].champions[players[p].bench[i]].position = NoPos
        /\ \A cell \in Cells :
            players[p].board[cell] # NoRef => IsUnit(players[p].champions[players[p].board[cell]])

(* After an upgrade the player has moved units: a 2-star unit stands on    *)
(* the board and another unit is on the bench                             *)
C17_Witness ==
    /\ last_call.op = "move_champion" /\ last_call.ok
    /\ \E cell \in Cells :
        /\ players[0].board[cell] # NoRef
        /\ players[0].champions[players[0].board[cell]].stars = 2
    /\ \E i \in 1..BenchSize : players[0].bench[i] # NoRef

---------------------------------------------------------------------------
(* SpecCombat: a GameRound over three players whose boards hold units, on   *)
(* which run_combat_phase and advance_round are called directly.  The      *)
(* caller catches the AttributeError a combat phase ends with and goes on. *)
(* history holds the draws of the last run_combat_phase call and          *)
(* counters.eliminated the players in the order they were eliminated.      *)

(* The boards the players enter the combat rounds with: no unit, one       *)
(* 1-star unit, or a 1-star and a 2-star unit                              *)
Lineup(n) ==
    IF n = 0 THEN EmptyBoard
    ELSE IF n = 1 THEN place(EmptyBoard, create_champion("Lulu"), 0, 0).grid
    ELSE place(place(EmptyBoard, create_champion("Lulu"), 0, 0).grid,
               upgrade_star(create_champion("Vi")), 0, 1).grid

InitCombat ==
    /\ config = [gold_per_round |-> DefaultGoldPerRound, starting_health |-> CombatHealth,
                 max_game_rounds |-> 48, enable_carousel |-> FALSE,
                 enable_augments |-> FALSE]
    /\ pool_size_config = default_pool_size_config
    /\ pool = _initialize_pool(default_pool_size_config).pool
    /\ tier_totals = _initialize_pool(default_pool_size_config).tier_totals
    /\ \E lineup \in [0..NumPlayers -> 0..MaxLineup] :
        players = [p \in 0..NumPlayers |->
                      [NewPlayer(config) EXCEPT !.board = Lineup(lineup[p]),
                                                !.level = IF lineup[p] > 1 THEN lineup[p] ELSE 1]]
    /\ game_round = [NewGameRound EXCEPT !.current_round = FirstPvpRound]
    /\ IdleEngine
    /\ last_call = CallRec("init", -1, TRUE)
    /\ counters = [combats |-> 0, eliminated |-> << >>]

CombatUnchanged ==
    UNCHANGED <<config, pool_size_config, pool, tier_totals, event_queue, current_time,
                engine, pc, ret>>

(* The players this step has eliminated, in the order of the player list *)
JustEliminated ==
    SelectSeq(AliveSeq(players), LAMBDA p : ~players'[p].is_alive)

CallRunCombatPhase ==
    /\ counters.combats < MaxCombats
    /\ \E order \in Shuffles(players), winner_draw \in {0, 1} :
        \E out \in {run_combat_phase(players, game_round, order, winner_draw)} :
            /\ players' = out.players
            /\ game_round' = out.game_round
            /\ last_call' = CallRec("run_combat_phase", -1, ~out.raised)
            /\ history' = <<[op |-> "run_combat_phase", order |-> order,
                             winner_draw |-> winner_draw]>>
    /\ counters' = [combats |-> counters.combats + 1,
                    eliminated |-> counters.eliminated \o JustEliminated]
    /\ CombatUnchanged

CallCombatAdvanceRound ==
    /\ game_round.current_round < LastCombatRound
    /\ game_round' = advance_round(game_round)
    /\ last_call' = CallRec("advance_round", -1, TRUE)
    /\ UNCHANGED <<players, history, counters>>
    /\ CombatUnchanged

NextCombat ==
    \/ CallRunCombatPhase
    \/ CallCombatAdvanceRound

SpecCombat == InitCombat /\ [][NextCombat]_vars

(* The matchups the run_combat_phase call of this step has made *)
MatchupsMade == _determine_matchups(history'[1].order, game_round.recent_opponents).matchups

(* C21: in every round whose number is a configured carousel round, a      *)
(* combat phase makes no PvP pairing, changes no player's health and       *)
(* grants every living player exactly one item component.                  *)
C21_CarouselRound ==
    [][(last_call'.op = "run_combat_phase" /\ game_round.current_round \in CAROUSEL_ROUNDS)
       => /\ game_round'.recent_opponents = game_round.recent_opponents
          /\ \A p \in Players :
                /\ players'[p].health = players[p].health
                /\ players[p].is_alive
                   => Len(players'[p].items) = Len(players[p].items) + 1]_vars

(* The step is a run_combat_phase call that goes through _run_pvp_phase    *)
(* and pairs players                                                       *)
PvpStep ==
    /\ last_call'.op = "run_combat_phase"
    /\ get_round_type(game_round.current_round) = "combat"
    /\ Len(AliveSeq(players)) >= 2

(* y is among the last 3 opponents x had before this round *)
RecentlyMet(x, y) == y \in SeqRange(Last3(game_round.recent_opponents[x]))

(* C22: over any sequence of PvP rounds no player, picked first or picked  *)
(* as the opponent, is matched against one of their own last 3 opponents   *)
(* unless every other living player of the round is among those 3.         *)
C22_AntiRepeat ==
    [][PvpStep
       => \A i \in DOMAIN MatchupsMade :
            LET p1 == MatchupsMade[i][1]
                p2 == MatchupsMade[i][2]
            IN  p2 # -1
                => \A pair \in {<<p1, p2>>, <<p2, p1>>} :
                     RecentlyMet(pair[1], pair[2])
                     => \A z \in SeqRange(AliveSeq(players)) \ {pair[1]} :
                            RecentlyMet(pair[1], z)]_vars

(* The position of player p in the order of elimination *)
EliminatedAt(p) == CHOOSE i \in DOMAIN counters.eliminated : counters.eliminated[i] = p

(* C23: get_placements gives every living player placement 1 and the       *)
(* eliminated players the distinct placements living_count + 1,            *)
(* living_count + 2, ...; of two eliminated players the one who survived   *)
(* more rounds has the smaller placement, and with equal rounds survived   *)
(* the one eliminated later has the smaller placement.                     *)
C23_Placements ==
    LET placements == get_placements(players)
        dead == {p \in Players : ~players[p].is_alive}
        living_count == Cardinality(Players \ dead)
    IN  /\ \A p \in Players \ dead : placements[p] = 1
        /\ {placements[p] : p \in dead} = (living_count + 1)..(living_count + Cardinality(dead))
        /\ \A a, b \in dead :
            /\ a # b => placements[a] # placements[b]
            /\ players[a].rounds_survived > players[b].rounds_survived
               => placements[a] < placements[b]
            /\ (players[a].rounds_survived = players[b].rounds_survived
                /\ EliminatedAt(a) > EliminatedAt(b))
               => placements[a] < placements[b]

(* The sum of the star levels of the units on a board *)
RECURSIVE StarsOfCells(_, _)
StarsOfCells(board, cells) ==
    IF cells = {} THEN 0
    ELSE LET cell == CHOOSE c \in cells : TRUE
         IN  board[cell].stars + StarsOfCells(board, cells \ {cell})

StarsOn(board) == StarsOfCells(board, {cell \in Cells : IsUnit(board[cell])})

HasUnits(p) == \E cell \in Cells : IsUnit(players[p].board[cell])

(* Player loser has lost to player winner in this step: the loser's health *)
(* went down by the base damage of the round plus the stars on the         *)
(* winner's board, not below 0, and nobody else's health changed           *)
DamageApplied(loser, winner) ==
    LET damage == round_damage(game_round.current_round) + StarsOn(players[winner].board)
    IN  /\ damage > 0
        /\ players'[loser].health =
              IF players[loser].health > damage THEN players[loser].health - damage ELSE 0
        /\ \A p \in Players \ {loser} : players'[p].health = players[p].health

(* C30: for the PvP pairing a round resolves: two empty boards are a draw  *)
(* and no health changes; otherwise exactly the loser's health decreases,  *)
(* by the round's base damage plus the sum of the star levels of the       *)
(* winner's board units (floored at 0); an empty board facing a non-empty   *)
(* one always loses.                                                       *)
C30_PvpDamage ==
    [][PvpStep
       => LET p1 == MatchupsMade[1][1]
              p2 == MatchupsMade[1][2]
          IN  /\ p2 # -1
              /\ IF ~HasUnits(p1) /\ ~HasUnits(p2)
                 THEN \A p \in Players : players'[p].health = players[p].health
                 ELSE IF ~HasUnits(p1) THEN DamageApplied(p1, p2)
                 ELSE IF ~HasUnits(p2) THEN DamageApplied(p2, p1)
                 ELSE DamageApplied(p1, p2) \/ DamageApplied(p2, p1)]_vars

(* A player with an empty board has lost part of their health in the last  *)
(* combat phase, in a match in which another player's health was floored   *)
(* at 0 by a damage above what they had left                               *)
C30_Witness ==
    /\ last_call.op = "run_combat_phase"
    /\ \E p, q \in Players :
        /\ ~HasUnits(p)
        /\ players[p].health > 0 /\ players[p].health < config.starting_health
        /\ players[q].health = 0 /\ ~players[q].is_alive
        /\ HasUnits(q)

---------------------------------------------------------------------------
(* Protocol violations *)

(* The action kinds apply_action has a branch for *)
KnownActionTypes ==
    {"buy_xp", "refresh_shop", "buy_champion", "sell_champion", "move_champion", "pass"}

(* The step is an apply_action call with an action kind outside them *)
UnknownActionStep ==
    /\ last_call'.op = "apply_action"
    /\ history' # << >>
    /\ history'[Len(history')].op = "apply_action"
    /\ history'[Len(history')].result.kind \notin KnownActionTypes

(* The step processes an event for which there is no handler *)
UnhandledEventStep ==
    /\ last_call'.op = "process_next_event"
    /\ history' # history /\ history' # << >>
    /\ history'[Len(history')].op = "process"
    /\ history'[Len(history')].handler = None

(* C28: apply_action with an unknown action kind, and the processing of an *)
(* event whose kind has no handler, end with an error for the caller: the  *)
(* engine schedules no next turn and does not go on with the event loop.   *)
C28_ProtocolViolations ==
    [][/\ UnknownActionStep => (pc' = "raised" /\ event_queue' = event_queue)
       /\ UnhandledEventStep => pc' = "raised"]_vars

---------------------------------------------------------------------------
(* The purchase made on a full bench *)

(* The 1-star copies of champion c that player p holds on bench and board *)
CopiesHeld(p, c) ==
    {loc \in Locs : UnitAt(players[p], loc).id = c /\ UnitAt(players[p], loc).stars = 1}

----------------------------------------------------------------------------
(* SpecAugment: one player with units on board and bench, on whom the      *)
(* augment API is called: select_augment, apply_augment_hook with any      *)
(* augment and any event name, apply_all_passives,                         *)
(* apply_all_stage_start_hooks; move_champion rearranges the units between *)
(* the calls (the moves that succeed are the steps). While the last call   *)
(* is a hook call, ret holds its AugmentResult and history its arguments;  *)
(* counters.hooks is the number of direct hook calls.                      *)

(* A catalog augment nothing is registered for *)
CryMeARiver == "TFT16_Augment_CryMeARiver"

SYNTHETIC_AUGMENTS ==
    <<Augment(Exiles2, [ShieldPercent |-> ShieldPercent, Duration |-> 10]),
      Augment(Epoch, [XPAmount |-> 4, RerollCount |-> 3]),
      Augment(EpochPlus, [XPAmount |-> 8, RerollCount |-> 3])>>

DataAugments ==
    {Augment(RumbleCarry, [MaxRange |-> 7]), Augment(CryMeARiver, << >>)}

(* The augments the calls are made with: one per set of hooks, Epoch+ has  *)
(* the hooks of Epoch                                                      *)
AugmentChoices ==
    {a \in SeqToSet(SYNTHETIC_AUGMENTS) : a.augment_id # EpochPlus} \cup DataAugments

EventNames == {"on_select", "passive", "on_stage_start", "on_combat_end"}

AugmentCells == {<<0, 0>>, <<0, 1>>}

AugmentLocs == AugmentCells \cup {<<-1, 0>>, <<-1, 1>>}

(* A player holding a Lulu and a Rumble at the given places (NoPos: not    *)
(* held), the copies taken from the pool                                   *)
Held(champion_id, stars, loc) ==
    [create_champion_with_stats(champion_id) EXCEPT
         !.stars = stars, !.position = IF loc[1] = -1 THEN NoPos ELSE loc]

RosterPlayer(cfg, lulu_loc, rumble_loc, rumble_stars) ==
    LET base == [NewPlayer(cfg) EXCEPT !.level = 2, !.xp = xp_to_level(2)]
        with_lulu == IF lulu_loc = NoPos THEN base
                     ELSE SetUnitAt(base, lulu_loc, Held("Lulu", 1, lulu_loc))
    IN  IF rumble_loc = NoPos THEN with_lulu
        ELSE SetUnitAt(with_lulu, rumble_loc, Held("Rumble", rumble_stars, rumble_loc))

RosterPool(lulu_loc, rumble_loc, rumble_stars) ==
    [c \in ChampionIds |->
        max_copies(small_pool_size_config, Cost(c))
            - (IF c = "Lulu" /\ lulu_loc # NoPos THEN 1 ELSE 0)
            - (IF c = "Rumble" /\ rumble_loc # NoPos THEN Pow3(rumble_stars - 1) ELSE 0)]

InitAugment ==
    /\ config = [gold_per_round |-> DefaultGoldPerRound, starting_health |-> 100,
                 max_game_rounds |-> 48, enable_carousel |-> FALSE,
                 enable_augments |-> TRUE]
    /\ pool_size_config = small_pool_size_config
    /\ \E lulu_loc \in {NoPos, <<0, 0>>}, rumble_loc \in {NoPos, <<0, 1>>},
          rumble_stars \in {1} :
        /\ players = [p \in {0} |-> RosterPlayer(config, lulu_loc, rumble_loc,
                                                 rumble_stars)]
        /\ pool = RosterPool(lulu_loc, rumble_loc, rumble_stars)
        /\ tier_totals = [k \in Costs |->
                             LET ids == {c \in ChampionIds : Cost(c) = k}
                                 RECURSIVE Sum(_)
                                 Sum(S) == IF S = {} THEN 0
                                           ELSE LET c == CHOOSE x \in S : TRUE
                                                IN  pool[c] + Sum(S \ {c})
                             IN  Sum(ids)]
    /\ game_round = [current_round |-> 6, current_stage |-> 1,
                     recent_opponents |-> [p \in {0} |-> << >>]]
    /\ event_queue = << >>
    /\ current_time = 0
    /\ engine = [current_round |-> 0, current_stage |-> 1, game_over_flag |-> FALSE]
    /\ pc = "caller"
    /\ ret = NeutralResult
    /\ history = << >>
    /\ last_call = CallRec("init", -1, TRUE)
    /\ counters = [hooks |-> 0]

AugmentUnchanged ==
    UNCHANGED <<config, pool_size_config, game_round, event_queue, current_time,
                engine, pc>>

CallSelectAugment(augment) ==
    /\ Len(players[0].selected_augments) < MaxAugments
    /\ LET out == select_augment(players[0], ThePool, augment)
       IN  /\ players' = [players EXCEPT ![0] = out.player]
           /\ pool' = out.P.pool
           /\ tier_totals' = out.P.tier_totals
           /\ ret' = out.result
           /\ last_call' = CallRec("select_augment", 0, out.result.success)
           /\ history' = << >>
           /\ UNCHANGED counters
           /\ AugmentUnchanged

CallApplyAugmentHook(augment, event) ==
    /\ counters.hooks < MaxHookCalls
    /\ LET out == apply_augment_hook(players[0], ThePool, augment, event)
       IN  /\ players' = [players EXCEPT ![0] = out.player]
           /\ pool' = out.P.pool
           /\ tier_totals' = out.P.tier_totals
           /\ ret' = out.result
           /\ last_call' = CallRec("apply_augment_hook", 0, out.result.success)
           /\ history' = <<[augment |-> augment, event |-> event]>>
           /\ counters' = [counters EXCEPT !.hooks = @ + 1]
           /\ AugmentUnchanged

CallApplyAllPassives ==
    LET out == apply_all_passives(players[0], ThePool)
    IN  /\ players' = [players EXCEPT ![0] = out.player]
        /\ pool' = out.P.pool
        /\ tier_totals' = out.P.tier_totals
        /\ last_call' = CallRec("apply_all_passives", 0, TRUE)
        /\ ret' = NeutralResult
        /\ history' = << >>
        /\ UNCHANGED counters
        /\ AugmentUnchanged

CallApplyAllStageStartHooks ==
    /\ counters.hooks < MaxHookCalls
    /\ LET out == apply_all_stage_start_hooks(players[0], ThePool)
       IN  /\ players' = [players EXCEPT ![0] = out.player]
           /\ pool' = out.P.pool
           /\ tier_totals' = out.P.tier_totals
           /\ last_call' = CallRec("apply_all_stage_start_hooks", 0, TRUE)
           /\ counters' = [counters EXCEPT !.hooks = @ + 1]
           /\ ret' = NeutralResult
           /\ history' = << >>
           /\ AugmentUnchanged

CallAugmentMoveChampion(from_pos, to_pos) ==
    LET r == move_champion(players[0], from_pos, to_pos)
    IN  /\ r.ok
        /\ players' = [players EXCEPT ![0] = r.player]
        /\ last_call' = CallRec("move_champion", 0, r.ok)
        /\ ret' = NeutralResult
        /\ history' = << >>
        /\ UNCHANGED <<pool, tier_totals, counters>>
        /\ AugmentUnchanged

NextAugment ==
    \/ \E augment \in AugmentChoices : CallSelectAugment(augment)
    \/ \E augment \in AugmentChoices, event \in EventNames :
           CallApplyAugmentHook(augment, event)
    \/ CallApplyAllPassives
    \/ CallApplyAllStageStartHooks
    \/ \E from_pos \in AugmentLocs, to_pos \in AugmentLocs :
           CallAugmentMoveChampion(from_pos, to_pos)

SpecAugment == InitAugment /\ [][NextAugment]_vars

----------------------------------------------------------------------------
(* Dispatch of hooks that do not exist *)

HookCall(augment, event) ==
    /\ last_call'.op = "apply_augment_hook"
    /\ counters'.hooks = counters.hooks + 1
    /\ history' = <<[augment |-> augment, event |-> event]>>

MissingHook(augment, event) ==
    \/ augment.augment_id \notin DOMAIN AUGMENT_REGISTRY
    \/ event \notin AUGMENT_REGISTRY[augment.augment_id]

(* C24: apply_augment_hook for an augment id that has no registry entry,   *)
(* or for a registered augment without a hook for the requested event,     *)
(* returns AugmentResult(success=True) with no grants, no affected         *)
(* champions and zero deltas, and leaves the player and the pool as they   *)
(* were, whatever the event name.                                          *)
C24_MissingHooksNeutral ==
    [][\A augment \in AugmentChoices, event \in EventNames :
          (HookCall(augment, event) /\ MissingHook(augment, event))
              => /\ ret' = [success |-> TRUE, grants |-> << >>, gold_delta |-> 0,
                            affected_champions |-> << >>, xp_delta |-> 0,
                            rerolls_granted |-> 0]
                 /\ players' = players
                 /\ pool' = pool
                 /\ tier_totals' = tier_totals]_vars

(* An unregistered augment's passive hook has been asked for on a player   *)
(* who holds augments and has units on the board                           *)
C24_Witness ==
    /\ last_call.op = "apply_augment_hook"
    /\ history # << >>
    /\ history[1].augment.augment_id = CryMeARiver
    /\ history[1].event = "passive"
    /\ ret.success
    /\ players[0].selected_augments # << >>
    /\ count_champions(players[0].board) > 0

----------------------------------------------------------------------------
(* Re-application of the passives *)

(* A unit back at its star-scaled base stats, its augment flags cleared *)
ResetChampion(u) ==
    IF IsUnit(u) THEN [_update_base_stats(u) EXCEPT !.fires_missiles = FALSE,
                                                    !.shield = 0]
    ELSE u

ResetOwned(player) ==
    [player EXCEPT !.board = [cell \in Cells |-> ResetChampion(player.board[cell])],
                   !.bench = [i \in 1..BenchSize |-> ResetChampion(player.bench[i])]]

(* C25: apply_all_passives first resets every champion the player owns, on *)
(* the board and on the bench, to its star-scaled base stats and clears    *)
(* the transient augment flags, and only then runs the passive hooks of    *)
(* the player's augments in selection order: the player it leaves is the   *)
(* one the hooks make of the reset player.                                 *)
C25_ResetThenReapply ==
    [][last_call'.op = "apply_all_passives"
          => players'[0] = ApplyHooks(ResetOwned(players[0]), ThePool,
                                      players[0].selected_augments, "passive").player]_vars

(* The stats and augment flags of every unit a player owns *)
StatsOf(player) ==
    [loc \in SeqToSet(_get_all_champions(player)) |->
        [attack_range |-> UnitAt(player, loc).attack_range,
         fires_missiles |-> UnitAt(player, loc).fires_missiles,
         shield |-> UnitAt(player, loc).shield]]

(* C26: applying the passive hooks twice in a row, with nothing changed in *)
(* between, leaves the attack range, the missile flag and the shield of    *)
(* every unit as one application leaves them; for the augments the player  *)
(* has selected (apply_all_passives) and for the passive hook of any       *)
(* single augment, on every roster.                                        *)
C26_PassiveIdempotence ==
    /\ LET once == apply_all_passives(players[0], ThePool)
           twice == apply_all_passives(once.player, once.P)
       IN  StatsOf(twice.player) = StatsOf(once.player)
    /\ \A augment \in AugmentChoices :
           LET once == apply_augment_hook(players[0], ThePool, augment, "passive")
               twice == apply_augment_hook(once.player, once.P, augment, "passive")
           IN  StatsOf(twice.player) = StatsOf(once.player)

(* apply_all_passives has run for a player who selected Artillery Barrage  *)
(* and Exiles II and owns a second unit: the Rumble alone on the board     *)
(* carries the range bonus, the missile flag and the shield                *)
C26_Witness ==
    /\ last_call.op = "apply_all_passives"
    /\ Len(players[0].selected_augments) = 2
    /\ Len(_get_all_champions(players[0])) >= 2
    /\ \E cell \in AugmentCells :
           /\ players[0].board[cell].id = "Rumble"
           /\ players[0].board[cell].fires_missiles
           /\ players[0].board[cell].attack_range = 1 + 7
           /\ players[0].board[cell].shield > 0

----------------------------------------------------------------------------
(* SpecEligible: get_eligible_augments called with every selection round   *)
(* of SelectionRounds and every catalog list of up to MaxCatalog entries   *)
(* with distinct ids, as TFTDataLoader.get_all_augments returns them (the  *)
(* loader keeps its augments in a dictionary keyed by id). history holds   *)
(* the arguments of the call, ret the list it returned.                    *)

AUGMENT_ELIGIBLE_ROUNDS ==
    (Exiles2 :> {20, 29}) @@ (Epoch :> {10}) @@ (EpochPlus :> {20})

(* The candidates of the catalog: the entries whose id has not been seen *)
RECURSIVE Unseen(_, _)
Unseen(data_augments, seen) ==
    IF data_augments = << >> THEN << >>
    ELSE IF Head(data_augments).augment_id \in seen
         THEN Unseen(Tail(data_augments), seen)
         ELSE <<Head(data_augments)>>
                  \o Unseen(Tail(data_augments),
                            seen \cup {Head(data_augments).augment_id})

Eligible(candidates, round_number) ==
    SelectSeq(candidates,
              LAMBDA aug : \/ aug.augment_id \notin DOMAIN AUGMENT_ELIGIBLE_ROUNDS
                           \/ round_number \in AUGMENT_ELIGIBLE_ROUNDS[aug.augment_id])

(* get_eligible_augments without the seen set: every catalog entry is a    *)
(* candidate                                                               *)
get_eligible_augments_without_seen(round_number, data_augments) ==
    Eligible(SYNTHETIC_AUGMENTS \o data_augments, round_number)

get_eligible_augments(round_number, data_augments) ==
    Eligible(SYNTHETIC_AUGMENTS
                 \o Unseen(data_augments,
                           {SYNTHETIC_AUGMENTS[i].augment_id :
                                i \in 1..Len(SYNTHETIC_AUGMENTS)}),
             round_number)

SelectionRounds == {6, 10, 13, 20, 29}

(* Catalog entries: two ids only the catalog has, and two entries under    *)
(* the id of a synthetic augment with effects of their own                 *)
CatalogEntries ==
    {Augment(RumbleCarry, [MaxRange |-> 7]), Augment(CryMeARiver, << >>),
     Augment(Epoch, [XPAmount |-> 2, RerollCount |-> 1]),
     Augment(Exiles2, [ShieldPercent |-> 20])}

Catalogs ==
    {s \in UNION {[1..n -> CatalogEntries] : n \in 0..MaxCatalog} :
        \A i, j \in 1..Len(s) : i # j => s[i].augment_id # s[j].augment_id}

InitEligible ==
    /\ config = [gold_per_round |-> DefaultGoldPerRound, starting_health |-> 100,
                 max_game_rounds |-> 48, enable_carousel |-> FALSE,
                 enable_augments |-> TRUE]
    /\ pool_size_config = small_pool_size_config
    /\ pool = _initialize_pool(small_pool_size_config).pool
    /\ tier_totals = _initialize_pool(small_pool_size_config).tier_totals
    /\ players = [p \in {0} |-> NewPlayer(config)]
    /\ game_round = [current_round |-> 1, current_stage |-> 1,
                     recent_opponents |-> [p \in {0} |-> << >>]]
    /\ event_queue = << >>
    /\ current_time = 0
    /\ engine = [current_round |-> 0, current_stage |-> 1, game_over_flag |-> FALSE]
    /\ pc = "caller"
    /\ ret = << >>
    /\ history = << >>
    /\ last_call = CallRec("init", -1, TRUE)
    /\ counters = [calls |-> 0]

CallGetEligibleAugments(round_number, data_augments) ==
    /\ ret' = get_eligible_augments(round_number, data_augments)
    /\ history' = <<[round_number |-> round_number, data_augments |-> data_augments]>>
    /\ last_call' = CallRec("get_eligible_augments", -1, TRUE)
    /\ UNCHANGED <<config, pool_size_config, pool, tier_totals, players, game_round,
                   event_queue, current_time, engine, pc, counters>>

NextEligible ==
    \E round_number \in SelectionRounds, data_augments \in Catalogs :
        CallGetEligibleAugments(round_number, data_augments)

SpecEligible == InitEligible /\ [][NextEligible]_vars

SyntheticIds == {Exiles2, Epoch, EpochPlus}

(* The round restriction as the augment modules give it *)
MayBeOffered(augment_id, round_number) ==
    CASE augment_id = Exiles2 -> round_number \in {20, 29}
      [] augment_id = Epoch -> round_number = 10
      [] augment_id = EpochPlus -> round_number = 20
      [] OTHER -> TRUE

(* C27: get_eligible_augments(round, catalog_augments) returns exactly the *)
(* augments of the union of the synthetic and the catalog augments, a      *)
(* catalog entry under the id of a synthetic augment being replaced by the *)
(* synthetic one so that no id appears twice, whose eligible-round set is  *)
(* absent or contains the round.                                           *)
C27_EligibilityFiltering ==
    last_call.op = "get_eligible_augments" =>
        LET round_number == history[1].round_number
            catalog == SeqToSet(history[1].data_augments)
            union == SeqToSet(SYNTHETIC_AUGMENTS)
                         \cup {a \in catalog : a.augment_id \notin SyntheticIds}
        IN  /\ SeqToSet(ret) = {a \in union : MayBeOffered(a.augment_id, round_number)}
            /\ \A i, j \in 1..Len(ret) : i # j => ret[i].augment_id # ret[j].augment_id

(* A call for round 10 with a catalog that has an entry of its own under   *)
(* Epoch's id: the synthetic Epoch is returned, the catalog's is not, the  *)
(* unrestricted catalog augment is, Exiles II and Epoch+ are not           *)
C27_Witness ==
    /\ last_call.op = "get_eligible_augments"
    /\ history[1].round_number = 10
    /\ Augment(Epoch, [XPAmount |-> 2, RerollCount |-> 1])
           \in SeqToSet(history[1].data_augments)
    /\ Augment(RumbleCarry, [MaxRange |-> 7]) \in SeqToSet(history[1].data_augments)
    /\ ret = <<Augment(Epoch, [XPAmount |-> 4, RerollCount |-> 3]),
               Augment(RumbleCarry, [MaxRange |-> 7])>>

----------------------------------------------------------------------------
(* Matchmaking *)

(* The matchups of a list in which the player p appears *)
MatchupsOf(m, p) == {i \in 1..Len(m) : m[i][1] = p \/ m[i][2] = p}

(* C31: in every PvP round with at least two living players each living    *)
(* player appears in exactly one matchup and no eliminated player in any;  *)
(* there is a ghost pairing (opponent -1) exactly when the number of       *)
(* living players is odd, never more than one, and the player paired with  *)
(* the ghost takes no damage.                                              *)
C31_MatchmakingPartition ==
    [][PvpStep =>
          LET m == MatchupsMade
              alive == SeqRange(AliveSeq(players))
              ghosts == {i \in 1..Len(m) : m[i][2] = -1}
          IN  /\ \A p \in alive : Cardinality(MatchupsOf(m, p)) = 1
              /\ \A p \in Players \ alive : MatchupsOf(m, p) = {}
              /\ \A i \in 1..Len(m) : m[i][1] # m[i][2] /\ m[i][1] # -1
              /\ Cardinality(ghosts) = Cardinality(alive) % 2
              /\ \A i \in ghosts : players'[m[i][1]].health = players[m[i][1]].health]_vars

(* A PvP round of three living players has been fought: one of them, the   *)
(* ghost's opponent, has met nobody and kept the health, the two others    *)
(* have met and one of them was hurt                                       *)
C31_Witness ==
    /\ last_call.op = "run_combat_phase"
    /\ history # << >>
    /\ Len(history[1].order) = 3
    /\ get_round_type(game_round.current_round) = "combat"
    /\ \E g \in Players :
        /\ game_round.recent_opponents[g] = << >>
        /\ players[g].health = config.starting_health
        /\ \A p \in Players \ {g} : game_round.recent_opponents[p] # << >>
        /\ \E p \in Players \ {g} : players[p].health < config.starting_health

----------------------------------------------------------------------------
(* The grant of round 1 *)

BenchUnits(player) == {i \in 1..BenchSize : IsUnit(player.bench[i])}

(* The champion ids of the units the step has added to the bench of p *)
GrantedTo(p) ==
    {players'[p].bench[i].id : i \in BenchUnits(players'[p]) \ BenchUnits(players[p])}

(* The step is the planning of the given kind of round *)
PlanningOfRound1 == ProcessesNext("START_PLANNING") /\ engine'.current_round = 1

(* C32: the planning phase of round 1 gives every living player exactly    *)
(* one 1-star unit of a cost-1 champion on the bench, and takes for every  *)
(* unit granted exactly one copy of its champion from the pool; the        *)
(* planning phase of any other round grants nothing and leaves the pool    *)
(* as it is.                                                               *)
C32_Round1Grant ==
    [][ /\ PlanningOfRound1
            => /\ \A p \in DOMAIN players :
                    players[p].is_alive
                        => /\ Cardinality(BenchUnits(players'[p]))
                                = Cardinality(BenchUnits(players[p])) + 1
                           /\ players'[p].board = players[p].board
                           /\ \E c \in ChampionIds :
                                /\ GrantedTo(p) = {c}
                                /\ Cost(c) = 1
                                /\ \A i \in BenchUnits(players'[p]) \ BenchUnits(players[p]) :
                                       players'[p].bench[i].stars = 1
               /\ \A c \in ChampionIds :
                    pool[c] - pool'[c]
                        = Cardinality({p \in DOMAIN players : c \in GrantedTo(p)})
        /\ (ProcessesNext("START_PLANNING") /\ engine'.current_round # 1)
            => /\ pool' = pool
               /\ \A p \in DOMAIN players :
                    /\ players'[p].bench = players[p].bench
                    /\ players'[p].board = players[p].board ]_vars

(* Round 1 has been planned: every player holds one unit, and the pool     *)
(* lacks three copies of cost-1 champions, two of them of one champion     *)
C32_Witness ==
    /\ engine.current_round = 1
    /\ history # << >> /\ KindOf(history[Len(history)]) = "START_PLANNING"
    /\ \A p \in DOMAIN players : Cardinality(BenchUnits(players[p])) = 1
    /\ \E c \in ChampionIds :
        /\ Cost(c) = 1
        /\ pool[c] = max_copies(pool_size_config, 1) - 2
    /\ tier_totals[1] = 2 * max_copies(pool_size_config, 1) - 3

---------------------------------------------------------------------------
(* The round limit (SpecResume) *)

(* C33: no round numbered above max_game_rounds is ever started: the       *)
(* engine's current_round is at most max_game_rounds in every reachable    *)
(* state of a match.                                                       *)
C33_RoundLimit == engine.current_round <= config.max_game_rounds

---------------------------------------------------------------------------
(* The game-over flag (Spec) *)

(* C34: whenever run_until_decision_point has returned a result with       *)
(* game_over true, the result of the empty-queue exit included,            *)
(* is_game_over() (the game_over_flag) is true afterwards.                 *)
C34_GameOverFlagConsistency ==
    (pc = "caller" /\ ret.kind # "none" /\ ret.game_over) => engine.game_over_flag

---------------------------------------------------------------------------
(* A survivor always exists (SpecResume) *)

(* C35: in every reachable state of a match at least one player is alive   *)
(* (no combat round eliminates all remaining players), so once GAME_END    *)
(* has been processed some player has placement 1.                         *)
C35_SurvivorExists ==
    /\ \E p \in Players : players[p].is_alive
    /\ engine.game_over_flag => \E p \in Players : get_placements(players)[p] = 1

(* GAME_END has been processed with one player left, the others having     *)
(* been eliminated in combat                                               *)
C35_Witness ==
    /\ engine.game_over_flag
    /\ Len(AliveSeq(players)) = 1
    /\ \E p \in Players : ~players[p].is_alive /\ get_placements(players)[p] = Cardinality(Players)

---------------------------------------------------------------------------
(* SpecConsolidate: one player built with TFTConfig(starting_gold=         *)
(* ConsolidateGold, starting_level=MaxLevel) and the pool of a match, who  *)
(* refreshes, buys, sells and moves in any order.                          *)

InitConsolidate ==
    /\ config = [gold_per_round |-> DefaultGoldPerRound, starting_health |-> 100,
                 max_game_rounds |-> 48, enable_carousel |-> FALSE,
                 enable_augments |-> FALSE]
    /\ pool_size_config = default_pool_size_config
    /\ pool = _initialize_pool(default_pool_size_config).pool
    /\ tier_totals = _initialize_pool(default_pool_size_config).tier_totals
    /\ players = [p \in {0} |-> [NewPlayer(config) EXCEPT !.gold = ConsolidateGold,
                                                           !.level = MaxLevel]]
    /\ game_round = NewGameRound
    /\ IdleEngine
    /\ last_call = CallRec("init", -1, TRUE)
    /\ counters = [acquired |-> [c \in PoolIds |-> 0], released |-> [c \in PoolIds |-> 0]]

NextConsolidate ==
    \/ CallRefreshShop(0)
    \/ \E i \in ShopIndexes : CallBuyChampion(0, i)
    \/ \E pos \in TestPositions : CallSellChampion(0, pos)
    \/ \E a \in TestPositions, b \in TestPositions : CallMoveChampion(0, a, b)

SpecConsolidate == InitConsolidate /\ [][NextConsolidate]_vars

(* C36: in every reachable state a player holds at most two units with the *)
(* same champion id and the same star level below the maximum star level,  *)
(* across bench and board.                                                 *)
C36_ConsolidationComplete ==
    \A p \in Players, c \in ChampionIds, s \in 1..(MaxStars - 1) :
        CountStar(players[p], c, s) <= 2

---------------------------------------------------------------------------
(* SpecLevel: one player of a configuration with max_level LevelCap and    *)
(* starting_gold up to LevelGold, who gains XP by buy_xp and by the hooks  *)
(* of Epoch (4 XP) and Epoch+ (8 XP), in any order.                        *)

EpochAugments == {a \in SeqToSet(SYNTHETIC_AUGMENTS) : a.augment_id \in {Epoch, EpochPlus}}

InitLevel ==
    /\ \E gold \in 0..LevelGold :
        /\ config = [gold_per_round |-> DefaultGoldPerRound, starting_health |-> 100,
                     max_game_rounds |-> 48, enable_carousel |-> FALSE,
                     enable_augments |-> TRUE, max_level |-> LevelCap]
        /\ players = [p \in {0} |-> [NewPlayer(config) EXCEPT !.gold = gold]]
    /\ pool_size_config = default_pool_size_config
    /\ pool = _initialize_pool(default_pool_size_config).pool
    /\ tier_totals = _initialize_pool(default_pool_size_config).tier_totals
    /\ game_round = NewGameRound
    /\ IdleEngine
    /\ last_call = CallRec("init", -1, TRUE)
    /\ counters = [xp_gains |-> 0]

LevelUnchanged ==
    UNCHANGED <<config, pool_size_config, pool, tier_totals, game_round>>

CallLevelBuyXp ==
    /\ counters.xp_gains < MaxXpGains
    /\ LET r == buy_xp_under(players[0], config.max_level)
       IN  /\ players' = [players EXCEPT ![0] = r.player]
           /\ last_call' = CallRec("buy_xp", 0, r.ok)
    /\ counters' = [counters EXCEPT !.xp_gains = @ + 1]
    /\ LevelUnchanged /\ EngineUnchanged

(* The on_select or on_stage_start hook of Epoch or Epoch+ *)
CallLevelEpochHook(augment, event) ==
    /\ counters.xp_gains < MaxXpGains
    /\ players' = [players EXCEPT ![0] =
            _epoch_apply_under(@, ThePool, augment.effects, config.max_level).player]
    /\ last_call' = CallRec(event, 0, TRUE)
    /\ counters' = [counters EXCEPT !.xp_gains = @ + 1]
    /\ LevelUnchanged /\ EngineUnchanged

NextLevel ==
    \/ CallLevelBuyXp
    \/ \E augment \in EpochAugments, event \in {"on_select", "on_stage_start"} :
            CallLevelEpochHook(augment, event)

SpecLevel == InitLevel /\ [][NextLevel]_vars

(* The highest level L <= max_level whose xp_to_level[L] is <= xp *)
LevelForXp(xp, max_level) ==
    CHOOSE lv \in 1..max_level :
        /\ xp_to_level(lv) <= xp
        /\ \A higher \in (lv + 1)..max_level : xp_to_level(higher) > xp

(* C37: after any sequence of XP gains (buy_xp and augment XP grants) the  *)
(* player's level and XP have not decreased, and the level is the highest  *)
(* level L <= max_level whose xp_to_level[L] is <= the player's XP.        *)
C37_LevelTracksXp ==
    [][\A p \in Players :
        /\ players'[p].level >= players[p].level
        /\ players'[p].xp >= players[p].xp
        /\ players'[p].level = LevelForXp(players'[p].xp, config.max_level)]_vars

---------------------------------------------------------------------------
(* SpecStage: a match of three players over the first carousel round, with *)
(* max_game_rounds StageRounds and starting_health StageHealth, so that    *)
(* the first loss eliminates.  After reset the caller lets the first       *)
(* players select Epoch (player.select_augment), MaxAugments players at    *)
(* most; then it drives the match as the caller of SpecResume does.        *)
(* Player 0 puts the unit granted in round 1 on the board and may take it  *)
(* back to the bench once an opponent is eliminated; every other answer is *)
(* a pass.                                                                 *)

StageAugments == {a \in SeqToSet(SYNTHETIC_AUGMENTS) : a.augment_id = Epoch}

InitStage ==
    /\ config = [gold_per_round |-> DefaultGoldPerRound,
                 starting_health |-> StageHealth,
                 max_game_rounds |-> StageRounds, enable_carousel |-> FALSE,
                 enable_augments |-> FALSE]
    /\ pool_size_config = default_pool_size_config
    /\ pool = _initialize_pool(default_pool_size_config).pool
    /\ tier_totals = _initialize_pool(default_pool_size_config).tier_totals
    /\ players = [p \in 0..NumPlayers |-> NewPlayer(config)]
    /\ game_round = NewGameRound
    /\ event_queue = schedule_event(<< >>, 0, "START_PLANNING", -1, NoData, None, 1)
    /\ current_time = 0
    /\ engine = [current_round |-> 0, current_stage |-> 1, game_over_flag |-> FALSE]
    /\ pc = "caller"
    /\ ret = NoResult
    /\ history = << >>
    /\ last_call = CallRec("reset", -1, TRUE)
    /\ counters = [scheduled |-> 1, processed_at_entry |-> 0, whole_log |-> FALSE,
                   selected |-> 0]

(* engine.players[p].select_augment(augment) for the next player, before   *)
(* the first run_until_decision_point                                      *)
CallStageSelectAugment(augment) ==
    /\ pc = "caller" /\ engine.current_round = 0
    /\ last_call.op \in {"reset", "select_augment"}
    /\ counters.selected < MaxAugments
    /\ \E out \in {select_augment(players[counters.selected], ThePool, augment)} :
        /\ players' = [players EXCEPT ![counters.selected] = out.player]
        /\ pool' = out.P.pool
        /\ tier_totals' = out.P.tier_totals
    /\ counters' = [counters EXCEPT !.selected = @ + 1]
    /\ last_call' = CallRec("select_augment", counters.selected, TRUE)
    /\ UNCHANGED <<config, pool_size_config, game_round, event_queue, current_time,
                   engine, pc, ret, history>>

(* The answers of the players of SpecStage *)
StageActions ==
    IF ret.player_id # 0 THEN {Act("pass")}
    ELSE IF engine.current_round = 1
    THEN {[Act("move_champion") EXCEPT !.from_pos = <<-1, 0>>]}
    ELSE IF \E p \in Players : ~players[p].is_alive
    THEN {Act("pass"), [Act("move_champion") EXCEPT !.to_pos = <<-1, 0>>]}
    ELSE {Act("pass")}

StageApplyAction == AnswerWith(StageActions)

NextStage ==
    \/ \E augment \in StageAugments : CallStageSelectAugment(augment)
    \/ AgentRunUntilDecisionPoint
    \/ MatchLoopStep
    \/ StageApplyAction
    \/ ResumeScheduleEndCombat

SpecStage == InitStage /\ [][NextStage]_vars

(* 1 plus the number of carousel rounds strictly below the round *)
StageOf(round_number) == 1 + Cardinality({c \in CAROUSEL_ROUNDS : c < round_number})

(* How many times the player holds Epoch, whose on_stage_start hook adds   *)
(* XPAmount XP and RerollCount free rerolls                                *)
EpochsHeld(player) ==
    Len(SelectSeq(player.selected_augments, LAMBDA a : a.augment_id = Epoch))

---------------------------------------------------------------------------
(* The rounds of augment selection (SpecEligible) *)

(* C39: each augment with a round-eligibility restriction (Epoch, Epoch+,  *)
(* Exiles II) is eligible at one at least of the rounds at which the       *)
(* engine runs augment selection (AUGMENT_ROUNDS): whatever the catalog,   *)
(* get_eligible_augments returns it for some round of AUGMENT_ROUNDS.      *)
C39_EveryAugmentOffered ==
    last_call.op = "get_eligible_augments" =>
        \A augment_id \in DOMAIN AUGMENT_ELIGIBLE_ROUNDS :
            \E round_number \in AUGMENT_ROUNDS :
                \E a \in SeqToSet(get_eligible_augments(round_number,
                                                        history[1].data_augments)) :
                    a.augment_id = augment_id

---------------------------------------------------------------------------
(* The pending event (Spec) *)

(* C40: when the agent answers every decision point with one apply_action, *)
(* the event queue holds at most one pending event in every state, it is   *)
(* empty while a decision point is open (from its return until             *)
(* apply_action is called), and current_time never decreases.              *)
C40_SinglePendingEvent ==
    [][/\ Len(event_queue) <= 1 /\ Len(event_queue') <= 1
       /\ pc' = "decision" => event_queue' = << >>
       /\ current_time' >= current_time]_vars

(* The decision point of the second player: the queue is empty, the first  *)
(* player's apply_action had queued the event that led here                *)
C40_Witness ==
    /\ pc = "decision" /\ ret.player_id = 1
    /\ event_queue = << >>
    /\ current_time > 0
    /\ counters.scheduled >= 3

====
